---- MODULE Spec2Model ----
(***************************************************************************)
(* A model of GMT's surface module (src/src/surface.c): gridding of        *)
(* scattered data with continuous-curvature splines in tension.            *)
(*                                                                         *)
(* Arithmetic.  The C code works in float/double.  Here every real is a    *)
(* fixed-point number: grid and data values are integers counting          *)
(* 1/SCALE, coordinates are integers counting 1/SUB of a final grid cell   *)
(* measured from the south-west node of the solution grid, and every       *)
(* rounding the C code leaves to the FPU is an explicit FDiv.              *)
(***************************************************************************)
EXTENDS Integers, Sequences, FiniteSets, TLC

\* Resolution of gmt_grdfloat values: one unit is 1/SCALE.
SCALE == 16
\* Resolution of coordinates: one unit is 1/SUB of the final grid increment.
SUB == 4

(***************************************************************************)
(* Constants of surface.c                                                  *)
(***************************************************************************)
SURFACE_OUTSIDE == 2147483647
\* 0.05 as the fraction 1/SURFACE_CLOSENESS_DEN
SURFACE_CLOSENESS_DEN == 20
SURFACE_IS_UNCONSTRAINED == 0
SURFACE_DATA_IS_IN_QUAD1 == 1
SURFACE_DATA_IS_IN_QUAD2 == 2
SURFACE_DATA_IS_IN_QUAD3 == 3
SURFACE_DATA_IS_IN_QUAD4 == 4
SURFACE_IS_CONSTRAINED == 5
SURFACE_BREAKLINE == 1
SURFACE_MAX_ITERATIONS == 500
\* SURFACE_CONV_LIMIT is 0.0001, the fraction 1/SURFACE_CONV_LIMIT_DEN
SURFACE_CONV_LIMIT_DEN == 10000
\* Over-relaxation is held in tenths: 1.4 is 14
SURFACE_OVERRELAXATION == 14
\* z_rms below GMT_CONV8_LIMIT (1e-8): below one fixed-point unit
GMT_CONV8_LIMIT == 1
\* The float NaN (GMT->session.f_NaN), a value no arithmetic here produces
NaN == -1000000

\* enum surface_limit
NONE == 0
DATA == 1
VALUE == 2
SURFACE == 3
\* enum surface_conv
BY_VALUE == 0
BY_PERCENT == 1
\* enum surface_iter
GRID_NODES == 0
GRID_DATA == 1
\* enum surface_bound, as indices of 2-tuples
LO == 1
HI == 2
\* enum surface_nodes, as indices of 12-tuples
N2 == 1
NW == 2
N1 == 3
NE == 4
W2 == 5
W1 == 6
E1 == 7
E2 == 8
SW == 9
S1 == 10
SE == 11
S2 == 12

\* static unsigned int p[5][4]: rows for quadrants 1..4
p == << <<NW, W1, S1, SE>>, <<SW, S1, E1, NE>>, <<SE, E1, N1, NW>>, <<NE, N1, W1, SW>> >>

(***************************************************************************)
(* Arithmetic helpers                                                      *)
(***************************************************************************)
Abs(a) == IF a < 0 THEN 0 - a ELSE a

\* a / b rounded to the nearest unit, halves away from zero (b > 0)
FDiv(a, b) ==
    LET n == IF b < 0 THEN 0 - a ELSE a
        d == Abs(b)
    IN  IF n >= 0 THEN (2 * n + d) \div (2 * d) ELSE 0 - ((2 * (0 - n) + d) \div (2 * d))

\* sqrt (n) in whole units, rounded down
RECURSIVE ISqrtFrom(_, _)
ISqrtFrom(n, r) == IF (r + 1) * (r + 1) > n THEN r ELSE ISqrtFrom(n, r + 1)
ISqrt(n) == ISqrtFrom(n, 0)

gmt_M_is_fnan(v) == v = NaN

Bool2Int(b) == IF b THEN 1 ELSE 0

(***************************************************************************)
(* The macros of surface.c (lines 149-172)                                 *)
(***************************************************************************)
row_col_to_node(row, col, mx) == (row + 2) * mx + col + 2
row_col_to_index(row, col, n_columns) == row * n_columns + col
\* floor ((x - x0) / inc + 0.5); the C macro takes the reciprocal idx = 1 / inc
x_to_col(x, x0, inc) == (2 * (x - x0) + inc) \div (2 * inc)
y_to_row(y, y0, inc, n_rows) == n_rows - 1 - x_to_col(y, y0, inc)
col_to_x(col, x0, x1, dx, n_columns) == IF col = n_columns - 1 THEN x1 ELSE x0 + col * dx
row_to_y(row, y0, y1, dy, n_rows) == IF row = n_rows - 1 THEN y0 ELSE y1 - row * dy
index_to_col(index, n_columns) == index % n_columns
index_to_row(index, n_columns) == index \div n_columns

\* gmt_M_ijp (h, row, col): node of (row, col) under header h
gmt_M_ijp(h, row, col) == (row + h.pad.yhi) * h.mx + col + h.pad.xlo

(***************************************************************************)
(* State                                                                   *)
(***************************************************************************)
VARIABLES
    input,    \* the invocation: option list, common options, input files
    pc,       \* position in GMT_surface
    rc,       \* value returned by GMT_surface ("running" until it returns)
    Ctrl,     \* struct SURFACE_CTRL
    header,   \* C.Grid->header
    C,        \* the scalars of struct SURFACE_INFO
    data,     \* C.data[0 .. npoints-1], as a sequence
    u,        \* C.Grid->data, a function of the padded node number
    status,   \* C.status
    Briggs,   \* C.Briggs, one entry per datum
    Bound,    \* C.Bound[LO], C.Bound[HI]->data
    iter,     \* the locals of the running surface_iterate call
    out,      \* the grid handed to GMT_Write_Data
    bl,       \* the locals of a surface_interpolate_add_breakline call
    log       \* ghost: what the run has done so far

vars == <<input, pc, rc, Ctrl, header, C, data, u, status, Briggs, Bound, iter, out, bl, log>>

(***************************************************************************)
(* New_Ctrl and parse (lines 1694-1706, 1800-1976)                         *)
(***************************************************************************)
New_Ctrl ==
    [A |-> [active |-> FALSE, mode |-> 0],
     C |-> [active |-> FALSE, value |-> 0, mode |-> BY_VALUE],
     D |-> [active |-> FALSE],
     G |-> [active |-> FALSE, file |-> FALSE],
     L |-> [active |-> <<FALSE, FALSE>>, mode |-> <<NONE, NONE>>, limit |-> <<0, 0>>],
     N |-> [active |-> FALSE, value |-> SURFACE_MAX_ITERATIONS],
     Q |-> [active |-> FALSE, as_is |-> FALSE, adjusted |-> FALSE,
            wesn |-> [xlo |-> 0, xhi |-> 0, ylo |-> 0, yhi |-> 0]],
     T |-> [active |-> <<FALSE, FALSE>>, b_tension |-> 0, i_tension |-> 0],
     W |-> [active |-> FALSE],
     Z |-> [active |-> FALSE, value |-> SURFACE_OVERRELAXATION]]

\* gmt_M_repeated_module_option: one error when the option was given before
gmt_M_repeated_module_option(active) == Bool2Int(active)

\* One pass of the switch in parse's loop: st is [Ctrl, n_errors], o one option
\* [option, mod, kind, value].  Values: -Z in tenths, -T in quarters, -C and
\* -L in units of 1/SCALE (-C...% in whole percent).
parse_option(st, o) ==
    LET c == st.Ctrl
        e == st.n_errors
        end == IF o.mod = "l" THEN LO ELSE HI
    IN  CASE o.option = "A" ->
               [Ctrl |-> [c EXCEPT !.A = [active |-> TRUE, mode |-> IF o.mod = "m" THEN 1 ELSE 0]],
                n_errors |-> e + gmt_M_repeated_module_option(c.A.active)]
          [] o.option = "C" ->
               [Ctrl |-> [c EXCEPT !.C = [active |-> TRUE, value |-> o.value,
                                          mode |-> IF o.mod = "%" THEN BY_PERCENT ELSE c.C.mode]],
                n_errors |-> e + gmt_M_repeated_module_option(c.C.active)]
          [] o.option = "D" ->
               [Ctrl |-> [c EXCEPT !.D.active = TRUE],
                n_errors |-> e + gmt_M_repeated_module_option(c.D.active)]
          [] o.option = "G" ->
               [Ctrl |-> [c EXCEPT !.G = [active |-> TRUE, file |-> o.kind = "file"]],
                n_errors |-> e + gmt_M_repeated_module_option(c.G.active) + Bool2Int(o.kind # "file")]
          [] o.option = "L" ->
               IF o.mod \in {"l", "u"}
               THEN [Ctrl |-> [c EXCEPT !.L.active[end] = TRUE,
                                         !.L.mode[end] = CASE o.kind = "file" -> SURFACE
                                                           [] o.kind = "d" -> DATA
                                                           [] OTHER -> VALUE,
                                         !.L.limit[end] = IF o.kind \in {"file", "d"} THEN @ ELSE o.value],
                     n_errors |-> e + gmt_M_repeated_module_option(c.L.active[end])]
               ELSE [Ctrl |-> c, n_errors |-> e + 1]
          [] o.option = "N" ->
               [Ctrl |-> [c EXCEPT !.N = [active |-> TRUE, value |-> o.value]],
                n_errors |-> e + gmt_M_repeated_module_option(c.N.active)]
          [] o.option = "Q" ->
               [Ctrl |-> [c EXCEPT !.Q.active = TRUE, !.Q.as_is = IF o.mod = "r" THEN TRUE ELSE @],
                n_errors |-> e + gmt_M_repeated_module_option(c.Q.active)]
          [] o.option = "T" ->
               CASE o.mod = "b" ->
                      [Ctrl |-> [c EXCEPT !.T.active[1] = TRUE, !.T.b_tension = o.value],
                       n_errors |-> e + gmt_M_repeated_module_option(c.T.active[1])]
                 [] o.mod = "i" ->
                      [Ctrl |-> [c EXCEPT !.T.active[2] = TRUE, !.T.i_tension = o.value],
                       n_errors |-> e + gmt_M_repeated_module_option(c.T.active[2])]
                 [] o.mod = "" ->
                      [Ctrl |-> [c EXCEPT !.T.active = <<TRUE, TRUE>>, !.T.b_tension = o.value, !.T.i_tension = o.value],
                       n_errors |-> e + gmt_M_repeated_module_option(c.T.active[1])
                                      + gmt_M_repeated_module_option(c.T.active[2])]
                 [] OTHER -> [Ctrl |-> c, n_errors |-> e + 1]
          [] o.option = "W" ->
               [Ctrl |-> [c EXCEPT !.W.active = TRUE],
                n_errors |-> e + gmt_M_repeated_module_option(c.W.active)]
          [] o.option = "Z" ->
               [Ctrl |-> [c EXCEPT !.Z = [active |-> TRUE, value |-> o.value]],
                n_errors |-> e + gmt_M_repeated_module_option(c.Z.active)]
          [] OTHER -> [Ctrl |-> c, n_errors |-> e + 1]

RECURSIVE parse_loop(_, _, _)
parse_loop(st, options, k) ==
    IF k > Len(options) THEN st ELSE parse_loop(parse_option(st, options[k]), options, k + 1)

\* parse: the option loop, then the checks of lines 1962-1973.
\* common is GMT->common.R and the input type; Z is in tenths, so 2.0 is 20.
parse(Ctrl0, options, common) ==
    LET st == parse_loop([Ctrl |-> Ctrl0, n_errors |-> 0], options, 1)
        c == IF st.Ctrl.Q.as_is THEN [st.Ctrl EXCEPT !.Q.active = FALSE] ELSE st.Ctrl
        n_errors == st.n_errors
                    + Bool2Int(~common.Rset)
                    + Bool2Int(common.inc[1] <= 0 \/ common.inc[2] <= 0)
                    + Bool2Int(c.N.value < 1)
                    + Bool2Int(c.Z.value < 0 \/ c.Z.value > 20)
                    + Bool2Int(~c.G.file /\ ~c.Q.active)
                    + Bool2Int(c.A.mode = 1 /\ common.cartesian)
    IN  [Ctrl |-> c, error |-> IF n_errors > 0 THEN "GMT_PARSE_ERROR" ELSE "GMT_NOERROR"]

\* GMT_surface, line 2007: parse the options, return on error
Parse ==
    /\ pc = "parse"
    /\ LET r == parse(New_Ctrl, input.options, input.common)
       IN  /\ Ctrl' = r.Ctrl
           /\ IF r.error # "GMT_NOERROR"
              THEN pc' = "done" /\ rc' = r.error
              ELSE pc' = "setup" /\ rc' = rc
    /\ UNCHANGED <<input, bl, header, C, data, u, status, Briggs, Bound, iter, out, log>>

(***************************************************************************)
(* Grid set-up (lines 2015-2093)                                           *)
(***************************************************************************)
RECURSIVE gmt_gcd_euclid(_, _)
gmt_gcd_euclid(a, b) == IF b = 0 THEN a ELSE gmt_gcd_euclid(b, a % b)

\* GMT_Create_Data for a gridline-registered container of n_columns x n_rows
\* nodes with the default pad of 2, its south-west node at (x0, y0)
GMT_Create_Data(n_columns, n_rows, x0, y0) ==
    [n_columns |-> n_columns, n_rows |-> n_rows,
     mx |-> n_columns + 4, my |-> n_rows + 4, size |-> (n_columns + 4) * (n_rows + 4),
     wesn |-> [xlo |-> x0, xhi |-> x0 + (n_columns - 1) * SUB,
               ylo |-> y0, yhi |-> y0 + (n_rows - 1) * SUB],
     inc |-> <<SUB, SUB>>,
     pad |-> [xlo |-> 2, xhi |-> 2, ylo |-> 2, yhi |-> 2], registration |-> "gridline"]

surface_init_parameters(c, ctrl, h) ==
    [c EXCEPT !.relax_new = ctrl.Z.value, !.relax_old = 10 - ctrl.Z.value,
              !.max_iterations = ctrl.N.value,
              !.set_limit = ctrl.L.mode, !.limit = ctrl.L.limit,
              !.adjusted = ctrl.Q.adjusted,
              !.boundary_tension = ctrl.T.b_tension, !.interior_tension = ctrl.T.i_tension,
              !.converge_limit = IF ctrl.C.mode = BY_PERCENT THEN ctrl.C.value
                                 ELSE ctrl.C.value * SURFACE_CONV_LIMIT_DEN,
              !.converge_mode = ctrl.C.mode,
              !.z_rms = SCALE,
              !.n_columns = h.n_columns, !.n_rows = h.n_rows, !.nxny = h.n_columns * h.n_rows,
              !.mx = h.mx, !.my = h.my, !.mxmy = h.size,
              !.info_wesn = h.wesn]

\* Lines 675-678: the nodes of the four corners of the current grid
node_nw_corner(c) == 2 * c.current_mx + 2
node_sw_corner(c) == node_nw_corner(c) + (c.current_ny - 1) * c.current_mx
node_se_corner(c) == node_sw_corner(c) + c.current_nx - 1
node_ne_corner(c) == node_nw_corner(c) + c.current_nx - 1

surface_set_grid_parameters(c, h) ==
    LET nx == (c.n_columns - 1) \div c.current_stride + 1
        ny == (c.n_rows - 1) \div c.current_stride + 1
        c1 == [c EXCEPT !.previous_nx = c.current_nx, !.previous_mx = c.current_mx,
                        !.previous_ny = c.current_ny,
                        !.current_nx = nx, !.current_ny = ny, !.current_mx = nx + 4,
                        !.current_mxmy = (nx + 4) * (ny + 4),
                        !.inc = <<c.current_stride * h.inc[1], c.current_stride * h.inc[2]>>]
    IN  [c1 EXCEPT !.node_nw_corner = node_nw_corner(c1), !.node_sw_corner = node_sw_corner(c1),
                   !.node_se_corner = node_se_corner(c1), !.node_ne_corner = node_ne_corner(c1)]

\* surface_suggest_sizes without -Q (lines 1390-1419): the region of the
\* first suggestion of gmt_optimal_dim_for_surface, which asks for sug[1]
\* more columns and sug[2] more rows than the grid of header h has
surface_suggest_sizes(h, sug, pixel) ==
    LET w == h.wesn.xlo - (sug[1] \div 2) * h.inc[1]
        e == h.wesn.xhi + (sug[1] \div 2) * h.inc[1] + (IF sug[1] % 2 = 1 THEN h.inc[1] ELSE 0)
        s == h.wesn.ylo - (sug[2] \div 2) * h.inc[2]
        n == h.wesn.yhi + (sug[2] \div 2) * h.inc[2] + (IF sug[2] % 2 = 1 THEN h.inc[2] ELSE 0)
        half == IF pixel THEN h.inc[1] \div 2 ELSE 0
    IN  [xlo |-> w - half, xhi |-> e - half, ylo |-> s - half, yhi |-> n - half]

\* GMT_Create_Data for the region wesn
grid_of_region(wesn) ==
    GMT_Create_Data((wesn.xhi - wesn.xlo) \div SUB + 1, (wesn.yhi - wesn.ylo) \div SUB + 1,
                    wesn.xlo, wesn.ylo)

\* The region shifted by half a cell to the north-east (lines 2057-2058)
half_cell_up(wesn) ==
    [xlo |-> wesn.xlo + SUB \div 2, xhi |-> wesn.xhi + SUB \div 2,
     ylo |-> wesn.ylo + SUB \div 2, yhi |-> wesn.yhi + SUB \div 2]

\* Coordinates count from the south-west node of the grid that is solved when
\* no larger region is suggested: the requested region -R begins at 0 and,
\* with -r, at -SUB/2, as the grid that is solved is then the one recreated
\* half a cell to the north-east.  input.common.sug is what
\* gmt_optimal_dim_for_surface returns: nothing, or the numbers of columns
\* and rows to add.  -Q is not given together with a suggestion.
Setup ==
    /\ pc = "setup"
    /\ LET pixel == input.common.registration = "pixel"
           R == GMT_Create_Data(input.common.n_columns, input.common.n_rows,
                                IF pixel THEN 0 - SUB \div 2 ELSE 0, IF pixel THEN 0 - SUB \div 2 ELSE 0)
           suggested == ~Ctrl.Q.as_is /\ input.common.sug # <<>>
           ctrl == IF suggested
                   THEN [Ctrl EXCEPT !.Q.wesn = surface_suggest_sizes(R, input.common.sug, pixel),
                                     !.Q.adjusted = TRUE]
                   ELSE Ctrl
           wesn == IF suggested THEN ctrl.Q.wesn ELSE R.wesn
           G1 == grid_of_region(wesn)
           c1 == surface_init_parameters([C EXCEPT !.periodic = input.common.periodic,
                                                   !.wesn_orig = R.wesn], ctrl, G1)
           h == IF pixel THEN grid_of_region(half_cell_up(wesn)) ELSE G1
           c2 == [c1 EXCEPT !.current_stride = gmt_gcd_euclid(c1.n_columns - 1, c1.n_rows - 1)]
       IN  /\ header' = h
           /\ Ctrl' = ctrl
           /\ IF h.n_columns < 4 \/ h.n_rows < 4
              THEN C' = c1 /\ pc' = "done" /\ rc' = "GMT_RUNTIME_ERROR"
              ELSE IF Ctrl.Q.active
              THEN C' = c2 /\ pc' = "done" /\ rc' = "GMT_NOERROR"
              ELSE /\ C' = surface_set_grid_parameters([c2 EXCEPT !.current_stride = 1], h)
                   /\ pc' = "read_data"
                   /\ rc' = rc
    /\ UNCHANGED <<input, bl, data, u, status, Briggs, Bound, iter, out, log>>

(***************************************************************************)
(* surface_read_data (lines 742-859)                                       *)
(***************************************************************************)
\* gmt_M_y_is_outside and gmt_x_is_outside: outside [left, right]
gmt_x_is_outside(x, left, right) == x < left \/ x > right

\* One pass of the record loop: st is [data, first, zmin, zmax, kmin, kmax]
\* (first stands for zmin = DBL_MAX, zmax = -DBL_MAX), in one record [x, y, z].
\* The longitude of a full revolution is the width of the grid.
read_record(c, h, st, in) ==
    LET row == y_to_row(in.y, h.wesn.ylo, c.inc[2], c.current_ny)
        push == c.periodic /\ 2 * (h.wesn.xhi - in.x) < c.inc[1]
        x == IF push THEN in.x - (h.wesn.xhi - h.wesn.xlo) ELSE in.x
        col == IF push THEN 0 ELSE x_to_col(in.x, h.wesn.xlo, c.inc[1])
        k == Len(st.data) + 1
        d1 == [index |-> row_col_to_index(row, col, c.current_nx), x |-> x, y |-> in.y, z |-> in.z, kind |-> 0]
        d2 == [index |-> row_col_to_index(row, c.current_nx - 1, c.current_nx),
               x |-> x + (h.wesn.xhi - h.wesn.xlo), y |-> in.y, z |-> in.z, kind |-> 0]
        newmin == st.first \/ st.zmin > in.z
        newmax == st.first \/ st.zmax < in.z
    IN  IF \/ gmt_M_is_fnan(in.z)
           \/ gmt_x_is_outside(in.y, h.wesn.ylo - c.inc[2], h.wesn.yhi + c.inc[2])
           \/ gmt_x_is_outside(in.x, h.wesn.xlo - c.inc[1], h.wesn.xhi + c.inc[1])
           \/ row < 0 \/ row >= c.current_ny
           \/ col < 0 \/ col >= c.current_nx
        THEN st
        ELSE [data |-> IF c.periodic /\ col = 0 THEN st.data \o <<d1, d2>> ELSE Append(st.data, d1),
              first |-> FALSE,
              zmin |-> IF newmin THEN in.z ELSE st.zmin, kmin |-> IF newmin THEN k ELSE st.kmin,
              zmax |-> IF newmax THEN in.z ELSE st.zmax, kmax |-> IF newmax THEN k ELSE st.kmax]

RECURSIVE read_loop(_, _, _, _, _)
read_loop(c, h, st, records, i) ==
    IF i > Len(records) THEN st ELSE read_loop(c, h, read_record(c, h, st, records[i]), records, i + 1)

\* A reader without the test of lines 832-836: it reports success for an
\* empty data set (used to see that C8 depends on the test)
read_data_without_test(c, h, records) ==
    [error |-> FALSE,
     data |-> read_loop(c, h, [data |-> <<>>, first |-> TRUE, zmin |-> 0, zmax |-> 0, kmin |-> 1, kmax |-> 1],
                        records, 1).data,
     limit |-> c.limit]

\* The whole function: its return value, C.data and C.limit
surface_read_data(c, h, records) ==
    LET st == read_loop(c, h, [data |-> <<>>, first |-> TRUE, zmin |-> 0, zmax |-> 0, kmin |-> 1, kmax |-> 1],
                        records, 1)
    IN  IF Len(st.data) = 0
        THEN [error |-> TRUE, data |-> <<>>, limit |-> c.limit]
        ELSE [error |-> FALSE, data |-> st.data,
              limit |-> <<IF c.set_limit[LO] = DATA THEN st.data[st.kmin].z ELSE c.limit[LO],
                          IF c.set_limit[HI] = DATA THEN st.data[st.kmax].z ELSE c.limit[HI]>>]

\* GMT_surface, lines 2094-2095
ReadData ==
    /\ pc = "read_data"
    /\ LET r == surface_read_data(C, header, input.records)
       IN  /\ data' = r.data
           /\ C' = [C EXCEPT !.limit = r.limit]
           /\ IF r.error
              THEN pc' = "done" /\ rc' = "GMT_RUNTIME_ERROR"
              ELSE pc' = (IF Ctrl.D.active THEN "breakline" ELSE "prepare") /\ rc' = rc
    /\ UNCHANGED <<input, bl, Ctrl, header, u, status, Briggs, Bound, iter, out, log>>

(***************************************************************************)
(* surface_interpolate_add_breakline (lines 1513-1692), for breaklines     *)
(* whose segments are single vertices: each vertex is the reduced point    *)
(* (xb, yb, zb) of its segment, and the work array z holds the vertex of   *)
(* the last segment in z[0] and zeros behind it.                           *)
(***************************************************************************)
breakline_z(zb, n) == IF n = 1 THEN zb[Len(zb)].z ELSE 0

\* One pass of the append loop (1655-1673): st is [data, first_lo, first_hi,
\* zmin, zmax, kmin, kmax], n the 1-based position in xb, yb, zb
append_breakline(c, h, st, b, n) ==
    LET scol == x_to_col(b[n].x, h.wesn.xlo, c.inc[1])
        srow == y_to_row(b[n].y, h.wesn.ylo, c.inc[2], c.current_ny)
        k == Len(st.data) + 1
        d == [index |-> row_col_to_index(srow, scol, c.current_nx),
              x |-> b[n].x, y |-> b[n].y, z |-> b[n].z, kind |-> SURFACE_BREAKLINE]
        newmin == st.first_lo \/ st.zmin > b[n].z
        newmax == st.first_hi \/ st.zmax < b[n].z
    IN  IF \/ gmt_M_is_fnan(b[n].z)
           \/ scol < 0 \/ scol >= c.current_nx
           \/ srow < 0 \/ srow >= c.current_ny
        THEN st
        ELSE [data |-> Append(st.data, d),
              first_lo |-> st.first_lo /\ ~newmin, first_hi |-> st.first_hi /\ ~newmax,
              zmin |-> IF newmin THEN breakline_z(b, n) ELSE st.zmin,
              kmin |-> IF newmin THEN k ELSE st.kmin,
              zmax |-> IF newmax THEN breakline_z(b, n) ELSE st.zmax,
              kmax |-> IF newmax THEN k ELSE st.kmax]

RECURSIVE append_loop(_, _, _, _, _)
append_loop(c, h, st, b, n) ==
    IF n > Len(b) THEN st ELSE append_loop(c, h, append_breakline(c, h, st, b, n), b, n + 1)

\* The function's effect on C.data and C.limit
surface_interpolate_add_breakline(c, h, d, b) ==
    LET st == append_loop(c, h, [data |-> d,
                                 first_lo |-> c.set_limit[LO] # DATA, first_hi |-> c.set_limit[HI] # DATA,
                                 zmin |-> c.limit[LO], zmax |-> c.limit[HI], kmin |-> 1, kmax |-> 1], b, 1)
    IN  [data |-> st.data,
         limit |-> <<IF c.set_limit[LO] = DATA THEN st.data[st.kmin].z ELSE c.limit[LO],
                     IF c.set_limit[HI] = DATA THEN st.data[st.kmax].z ELSE c.limit[HI]>>]

\* GMT_surface, lines 2096-2110
AddBreakline ==
    /\ pc = "breakline"
    /\ LET r == surface_interpolate_add_breakline(C, header, data, input.breakline)
       IN  /\ data' = r.data
           /\ C' = [C EXCEPT !.limit = r.limit]
    /\ pc' = "prepare"
    /\ UNCHANGED <<input, bl, rc, Ctrl, header, u, status, Briggs, Bound, iter, out, log>>

(***************************************************************************)
(* surface_interpolate_add_breakline step by step (lines 1541-1637), for   *)
(* tables whose segments have several vertices (SpecBreakline).  The model *)
(* follows the indices at which the work arrays x, y, z and the arrays xb, *)
(* yb, zb are written and the sizes they have at the time; the three       *)
(* arrays of a group are written together at one index, so one write is    *)
(* recorded for the group.  The values written to xb, yb, zb are not       *)
(* followed.  An interpolated point is kept exactly, as the numerators xn, *)
(* yn over the denominator den = n_int.                                    *)
(***************************************************************************)
\* Sizes of the GMT memory macros, scaled down: GMT has 2097152 and 2048
GMT_INITIAL_MEM_ROW_ALLOC == 4
GMT_CHUNK == 2

MAX(a, b) == IF a > b THEN a ELSE b

\* lrint (hypot (dx, dy) * r_inc) for r_inc = 1 / inc (line 1562): the
\* integer nearest to the quotient, the even one of two equally near
lrint_hypot(dx, dy, inc) ==
    LET s == dx * dx + dy * dy
        below == CHOOSE m \in 0..(s + 1) : m * m * inc * inc <= s /\ (m + 1) * (m + 1) * inc * inc > s
        half == (2 * below + 1) * (2 * below + 1) * inc * inc
    IN  IF 4 * s > half THEN below + 1
        ELSE IF 4 * s < half THEN below
        ELSE IF below % 2 = 0 THEN below ELSE below + 1

\* The points x[k], y[k] that the loop of lines 1573-1578 writes for the
\* piece from vertex a to vertex b
interpolated(a, b, n_int) ==
    [n \in 1..n_int |-> [xn |-> a.x * n_int + (n - 1) * (b.x - a.x),
                         yn |-> a.y * n_int + (n - 1) * (b.y - a.y), den |-> n_int]]

\* The bin of an interpolated point (lines 1585-1587, 1594-1598)
node_of_breakline_point(c, h, q) ==
    row_col_to_node(y_to_row(q.yn, h.wesn.ylo * q.den, c.inc[2] * q.den, c.current_ny),
                    x_to_col(q.xn, h.wesn.xlo * q.den, c.inc[1] * q.den), c.current_mx)

\* A write of the arrays of a group at an index, and their size at the time
write_of(array, index, n_alloc) == [array |-> array, index |-> index, n_alloc |-> n_alloc]
\* The writes of x[k .. k + n - 1]
writes_of_x(k, n, n_alloc) == [i \in 1..n |-> write_of("x", k + i - 1, n_alloc)]

\* No call is running
bl0 == [phase |-> "idle", seg |-> 0, row |-> 0, k |-> 0, new_n |-> 0, nb |-> 0,
        n_alloc |-> 0, n_alloc_b |-> 0, x |-> <<>>, node_this |-> 0, writes |-> <<>>]

\* A write beyond the end of its array has been made
Overrun == \E i \in 1..Len(bl.writes) : bl.writes[i].index >= bl.writes[i].n_alloc

\* Lines 1541-1551: the call and its allocations; seg and row count from 1
EnterBreakline ==
    /\ pc = "breakline" /\ bl.phase = "idle"
    /\ bl' = [bl0 EXCEPT !.phase = "interpolate", !.seg = 1, !.row = 1, !.k = 0, !.new_n = 1,
                         !.n_alloc = GMT_INITIAL_MEM_ROW_ALLOC,
                         !.n_alloc_b = GMT_INITIAL_MEM_ROW_ALLOC]
    /\ UNCHANGED <<input, pc, rc, Ctrl, header, C, data, u, status, Briggs, Bound, iter, out, log>>

\* Lines 1558-1579: one pass of the loop over the rows of the segment
InterpolateRow ==
    /\ pc = "breakline" /\ bl.phase = "interpolate"
    /\ bl.row < Len(input.segments[bl.seg])
    /\ LET line == input.segments[bl.seg]
           n_int == lrint_hypot(line[bl.row + 1].x - line[bl.row].x, line[bl.row + 1].y - line[bl.row].y,
                                C.inc[1]) + 1
           new_n == bl.new_n + n_int
           n_alloc == IF bl.n_alloc <= new_n THEN bl.n_alloc + MAX(GMT_CHUNK, n_int) ELSE bl.n_alloc
       IN  bl' = [bl EXCEPT !.new_n = new_n, !.n_alloc = n_alloc,
                            !.x = SubSeq(bl.x, 1, bl.k) \o interpolated(line[bl.row], line[bl.row + 1], n_int),
                            !.k = @ + n_int, !.row = @ + 1,
                            !.writes = @ \o writes_of_x(bl.k, n_int, n_alloc)]
    /\ UNCHANGED <<input, pc, rc, Ctrl, header, C, data, u, status, Briggs, Bound, iter, out, log>>

\* Lines 1580-1591: the last vertex of the segment goes to x[k], and the
\* first point of the line to xb[nb]
StartReduction ==
    /\ pc = "breakline" /\ bl.phase = "interpolate"
    /\ bl.row >= Len(input.segments[bl.seg])
    /\ LET line == input.segments[bl.seg]
           last == [xn |-> line[bl.row].x, yn |-> line[bl.row].y, den |-> 1]
           x == Append(SubSeq(bl.x, 1, bl.k), last)
       IN  bl' = [bl EXCEPT !.x = x, !.node_this = node_of_breakline_point(C, header, x[1]),
                            !.k = 1, !.phase = "reduce",
                            !.writes = @ \o <<write_of("x", bl.k, bl.n_alloc),
                                              write_of("xb", bl.nb, bl.n_alloc_b)>>]
    /\ UNCHANGED <<input, pc, rc, Ctrl, header, C, data, u, status, Briggs, Bound, iter, out, log>>

\* Lines 1592-1632: one pass of the loop over the points of the line.  The
\* writes of lines 1603 and 1610 go to the xb[nb] already written; on a new
\* bin nb is advanced, the arrays are enlarged if nb > n_alloc_b, and
\* xb[nb] is written (lines 1615-1624; line 1628 writes the same xb[nb])
ReducePoint ==
    /\ pc = "breakline" /\ bl.phase = "reduce"
    /\ bl.k < bl.new_n
    /\ LET node_prev == bl.node_this
           node_this == node_of_breakline_point(C, header, bl.x[bl.k + 1])
           nb == bl.nb + 1
           n_alloc_b == IF nb > bl.n_alloc_b THEN bl.n_alloc_b + GMT_CHUNK ELSE bl.n_alloc_b
       IN  bl' = IF node_this # node_prev
                 THEN [bl EXCEPT !.node_this = node_this, !.nb = nb, !.n_alloc_b = n_alloc_b, !.k = @ + 1,
                                 !.writes = Append(@, write_of("xb", nb, n_alloc_b))]
                 ELSE [bl EXCEPT !.k = @ + 1]
    /\ UNCHANGED <<input, pc, rc, Ctrl, header, C, data, u, status, Briggs, Bound, iter, out, log>>

\* Lines 1633-1635 and 1557-1558: the segment is done, nb is advanced and
\* the next segment starts, or the loop over the segments ends
EndSegment ==
    /\ pc = "breakline" /\ bl.phase = "reduce"
    /\ bl.k >= bl.new_n
    /\ bl' = IF bl.seg < Len(input.segments)
             THEN [bl EXCEPT !.nb = @ + 1, !.seg = @ + 1, !.row = 1, !.k = 0, !.new_n = 1,
                             !.phase = "interpolate"]
             ELSE [bl EXCEPT !.nb = @ + 1, !.seg = @ + 1, !.phase = "append"]
    /\ UNCHANGED <<input, pc, rc, Ctrl, header, C, data, u, status, Briggs, Bound, iter, out, log>>

\* A write beyond the end of an array is undefined: the run may go on as if
\* nothing had happened, or be stopped
StoppedAfterOverrun ==
    /\ pc = "breakline" /\ bl.phase \in {"interpolate", "reduce", "append"}
    /\ Overrun
    /\ bl' = [bl EXCEPT !.phase = "stopped"]
    /\ UNCHANGED <<input, pc, rc, Ctrl, header, C, data, u, status, Briggs, Bound, iter, out, log>>

(***************************************************************************)
(* Sorting the data (lines 471-509, 1301-1340)                             *)
(***************************************************************************)
\* A comparison by index alone, in which a breakline point has no priority
\* (used to see that C5 depends on lines 487-488)
compare_by_index(c, point_1, point_2) ==
    CASE point_1.index < point_2.index -> -1
      [] point_1.index > point_2.index -> 1
      [] OTHER -> 0

\* -1, 0 or +1; c carries C.info (wesn, inc, current_nx, current_ny)
surface_compare_points(c, point_1, point_2) ==
    LET row == index_to_row(point_1.index, c.current_nx)
        col == index_to_col(point_1.index, c.current_nx)
        x0 == col_to_x(col, c.info_wesn.xlo, c.info_wesn.xhi, c.inc[1], c.current_nx)
        y0 == row_to_y(row, c.info_wesn.ylo, c.info_wesn.yhi, c.inc[2], c.current_ny)
        dist_1 == (point_1.x - x0) * (point_1.x - x0) + (point_1.y - y0) * (point_1.y - y0)
        dx_2 == (point_2.x - x0) * (point_2.x - x0)
        dist_2 == dx_2 + (point_2.y - y0) * (point_2.y - y0)
    IN  CASE point_1.index < point_2.index -> -1
          [] point_1.index > point_2.index -> 1
          [] point_1.index = SURFACE_OUTSIDE -> 0
          [] point_1.kind = SURFACE_BREAKLINE /\ point_2.kind = 0 -> -1
          [] point_2.kind = SURFACE_BREAKLINE /\ point_1.kind = 0 -> 1
          [] dist_1 < dx_2 -> -1
          [] dist_1 < dist_2 -> -1
          [] dist_1 > dist_2 -> 1
          [] OTHER -> 0

\* QSORT_R: every order of d that the comparison allows (points that compare
\* equal may come out either way round), as sequences of positions of d
RECURSIVE SortedOrders(_, _, _)
SortedOrders(c, d, S) ==
    IF S = {} THEN {<<>>}
    ELSE LET least == {i \in S : \A j \in S \ {i} : surface_compare_points(c, d[i], d[j]) <= 0}
         IN  UNION {{<<i>> \o t : t \in SortedOrders(c, d, S \ {i})} : i \in least}

\* A sort that leaves the array as it is (used to see that C28 depends on
\* the data being in the order of the nodes)
left_unsorted(c, d) == {d}

QSORT_R(c, d) == {[k \in 1..Len(d) |-> d[o[k]]] : o \in SortedOrders(c, d, 1..Len(d))}

\* A marking loop that marks nothing (used to see that C24 depends on lines
\* 1319-1321)
mark_nothing(d, k, last_index) == d

\* The marking loop of surface_throw_away_unusables (1318-1329)
RECURSIVE mark_unusables(_, _, _)
mark_unusables(d, k, last_index) ==
    IF k > Len(d) THEN d
    ELSE IF d[k].index = last_index
         THEN mark_unusables([d EXCEPT ![k].index = SURFACE_OUTSIDE], k + 1, last_index)
         ELSE mark_unusables(d, k + 1, d[k].index)

n_outside(d) == Cardinality({k \in 1..Len(d) : d[k].index = SURFACE_OUTSIDE})

\* The data sets surface_throw_away_unusables can leave behind
surface_throw_away_unusables(c, d) ==
    UNION {LET m == mark_unusables(s, 1, -1)
           IN  IF n_outside(m) > 0
               THEN {SubSeq(s2, 1, Len(m) - n_outside(m)) : s2 \in QSORT_R(c, m)}
               ELSE {m}
           : s \in QSORT_R(c, d)}

(***************************************************************************)
(* The least-squares plane (lines 158-159, 1236-1299)                      *)
(***************************************************************************)
\* The sum of the numbers s[k], s[k+1], ...
RECURSIVE SumFrom(_, _)
SumFrom(s, k) == IF k > Len(s) THEN 0 ELSE s[k] + SumFrom(s, k + 1)
Sum(s) == SumFrom(s, 1)

\* The plane is kept as the quotients it is computed from: with coordinates
\* in units of 1/SUB cell, plane_icept = a / d, plane_sx = SUB * b / d and
\* plane_sy = SUB * c / d for the sums below, d made positive.
plane_of(c, h, dat) ==
    LET n == Len(dat)
        X(q) == q.x - h.wesn.xlo
        Y(q) == q.y - h.wesn.ylo
        sx == Sum([k \in 1..n |-> X(dat[k])])
        sy == Sum([k \in 1..n |-> Y(dat[k])])
        sz == Sum([k \in 1..n |-> dat[k].z])
        sxx == Sum([k \in 1..n |-> X(dat[k]) * X(dat[k])])
        sxy == Sum([k \in 1..n |-> X(dat[k]) * Y(dat[k])])
        sxz == Sum([k \in 1..n |-> X(dat[k]) * dat[k].z])
        syy == Sum([k \in 1..n |-> Y(dat[k]) * Y(dat[k])])
        syz == Sum([k \in 1..n |-> Y(dat[k]) * dat[k].z])
        d == n * sxx * syy + 2 * sx * sy * sxy - n * sxy * sxy - sx * sx * syy - sy * sy * sxx
        a == sz * sxx * syy + sx * sxy * syz + sy * sxy * sxz - sz * sxy * sxy - sx * sxz * syy - sy * syz * sxx
        b == n * sxz * syy + sz * sy * sxy + sy * sx * syz - n * sxy * syz - sz * sx * syy - sy * sy * sxz
        cc == n * sxx * syz + sx * sy * sxz + sz * sx * sxy - n * sxy * sxz - sx * sx * syz - sz * sy * sxx
        sg == IF d < 0 THEN -1 ELSE 1
    IN  IF d = 0 THEN [a |-> 0, b |-> 0, c |-> 0, d |-> 1]
        ELSE [a |-> sg * a, b |-> IF c.periodic THEN 0 ELSE sg * b, c |-> sg * cc, d |-> sg * d]

\* evaluate_plane at x, y measured in coordinate units from the south-west node
evaluate_plane(c, x, y) == FDiv(c.plane.a + c.plane.b * x + c.plane.c * y, c.plane.d)

surface_remove_planar_trend(c, h, dat) ==
    [k \in 1..Len(dat) |->
        [dat[k] EXCEPT !.z = @ - evaluate_plane(c, dat[k].x - h.wesn.xlo, dat[k].y - h.wesn.ylo)]]

\* A restoration that rescales but leaves the plane out (used to see that C4
\* depends on the plane being put back)
rescale_without_plane(c, h, grid) ==
    [node \in DOMAIN grid |-> FDiv(grid[node] * c.z_rms, SCALE)]

\* u, rescaled and with the plane put back, on the rows and columns of header h
surface_restore_planar_trend(c, h, grid) ==
    [node \in DOMAIN grid |->
        LET row == (node \div c.current_mx) - 2
            col == (node % c.current_mx) - 2
        IN  IF row >= 0 /\ row < h.n_rows /\ col >= 0 /\ col < h.n_columns
            THEN FDiv(grid[node] * c.z_rms, SCALE) + evaluate_plane(c, col * SUB, (h.n_rows - row - 1) * SUB)
            ELSE grid[node]]

(***************************************************************************)
(* surface_rescale_z_values (lines 1342-1369)                              *)
(***************************************************************************)
\* The least r with r * r >= n: a root that is zero only for n = 0
ISqrtUp(n) == IF ISqrt(n) * ISqrt(n) = n THEN ISqrt(n) ELSE ISqrt(n) + 1

\* [key, z_rms, data, converge_limit].  C.converge_limit is kept in units of
\* 1 / (SCALE * SURFACE_CONV_LIMIT_DEN), in which the default limit of
\* SURFACE_CONV_LIMIT * z_rms is the number z_rms; a -C percentage is kept
\* as the percentage until it is turned into a limit here.
surface_rescale_z_values(c, dat) ==
    LET ssz == Sum([k \in 1..Len(dat) |-> dat[k].z * dat[k].z])
        z_rms == ISqrtUp(FDiv(ssz, Len(dat)))
        z_rms_up == IF ssz > 0 /\ z_rms = 0 THEN 1 ELSE z_rms
    IN  IF z_rms_up < GMT_CONV8_LIMIT
        THEN [key |-> 1, z_rms |-> SCALE, data |-> dat, converge_limit |-> c.converge_limit]
        ELSE [key |-> 0, z_rms |-> z_rms_up,
              data |-> [k \in 1..Len(dat) |-> [dat[k] EXCEPT !.z = FDiv(@ * SCALE, z_rms_up)]],
              converge_limit |->
                  IF c.converge_limit = 0 \/ c.converge_mode = BY_PERCENT
                  THEN IF c.converge_mode = BY_PERCENT
                       THEN c.converge_limit * z_rms_up * (SURFACE_CONV_LIMIT_DEN \div 100)
                       ELSE z_rms_up
                  ELSE c.converge_limit]

\* GMT_surface, lines 2112-2116
Prepare ==
    /\ pc = "prepare"
    /\ \E kept \in surface_throw_away_unusables(C, data) :
          LET c1 == [C EXCEPT !.plane = plane_of(C, header, kept)]
              flat == surface_remove_planar_trend(c1, header, kept)
              r == surface_rescale_z_values(c1, flat)
          IN  /\ data' = r.data
              /\ C' = [c1 EXCEPT !.z_rms = r.z_rms, !.converge_limit = r.converge_limit]
              /\ pc' = IF r.key = 1 THEN "plane" ELSE "load_constraints"
    /\ UNCHANGED <<input, bl, rc, Ctrl, header, u, status, Briggs, Bound, iter, out, log>>

(***************************************************************************)
(* surface_load_constraints (lines 891-937)                                *)
(***************************************************************************)
\* gmt_M_grd_loop (h): the nodes of the rows and columns inside the pad
grd_row(h, node) == (node \div h.mx) - h.pad.yhi
grd_col(h, node) == (node % h.mx) - h.pad.xlo
in_grd_loop(h, node) ==
    /\ grd_row(h, node) >= 0 /\ grd_row(h, node) < h.n_rows
    /\ grd_col(h, node) >= 0 /\ grd_col(h, node) < h.n_columns

\* A limit grid file as GMT_Read_Data delivers it: file is [n_columns, n_rows,
\* z], z row by row from the north-west; the pad of 2 around it holds zeros
read_limit_grid(file) ==
    [node \in 0..((file.n_columns + 4) * (file.n_rows + 4) - 1) |->
        LET row == (node \div (file.n_columns + 4)) - 2
            col == (node % (file.n_columns + 4)) - 2
        IN  IF row >= 0 /\ row < file.n_rows /\ col >= 0 /\ col < file.n_columns
            THEN file.z[row * file.n_columns + col + 1] ELSE 0]

\* One pass of the loop over end: [error, B], B the data of C->Bound[end]
load_constraint(c, h, files, end, transform) ==
    LET dims_differ == files[end].n_columns # h.n_columns \/ files[end].n_rows # h.n_rows
        raw == IF c.set_limit[end] < SURFACE
               THEN [node \in 0..(c.mxmy - 1) |-> c.limit[end]]
               ELSE read_limit_grid(files[end])
        B == IF transform
             THEN [node \in DOMAIN raw |->
                     LET row == (node \div c.current_mx) - 2
                         col == (node % c.current_mx) - 2
                     IN  IF row >= 0 /\ row < h.n_rows /\ col >= 0 /\ col < h.n_columns
                            /\ ~gmt_M_is_fnan(raw[node])
                         THEN FDiv((raw[node] - evaluate_plane(c, col * SUB, (h.n_rows - row - 1) * SUB)) * SCALE,
                                   c.z_rms)
                         ELSE raw[node]]
             ELSE raw
    IN  IF c.set_limit[end] = SURFACE /\ ~c.adjusted /\ dims_differ
        THEN [error |-> TRUE, B |-> <<>>]
        ELSE [error |-> FALSE, B |-> B]

\* [error, Bound, constrained] given the Bound and C.constrained before the call
surface_load_constraints(c, h, files, bound, transform) ==
    LET lo == IF c.set_limit[LO] = NONE THEN [error |-> FALSE, B |-> bound[LO]]
              ELSE load_constraint(c, h, files, LO, transform)
        hi == IF c.set_limit[HI] = NONE THEN [error |-> FALSE, B |-> bound[HI]]
              ELSE load_constraint(c, h, files, HI, transform)
    IN  IF lo.error
        THEN [error |-> TRUE, Bound |-> bound, constrained |-> c.constrained]
        ELSE IF hi.error
        THEN [error |-> TRUE, Bound |-> <<lo.B, bound[HI]>>,
              constrained |-> c.constrained \/ c.set_limit[LO] # NONE]
        ELSE [error |-> FALSE, Bound |-> <<lo.B, hi.B>>,
              constrained |-> c.constrained \/ c.set_limit[LO] # NONE \/ c.set_limit[HI] # NONE]

(***************************************************************************)
(* surface_write_grid (lines 939-1004)                                     *)
(***************************************************************************)
\* irint of a quotient
irint(a, b) == FDiv(a, b)

\* Lines 947-962: the pad widened to leave out what a suggested region added
\* to the requested one, the region reset, and the dimensions that
\* gmt_set_grddim then gives the gridline-registered header
shrink_to_region(c, h) ==
    LET del_pad == [xlo |-> irint(c.wesn_orig.xlo - h.wesn.xlo, h.inc[1]),
                    xhi |-> irint(h.wesn.xhi - c.wesn_orig.xhi, h.inc[1]),
                    ylo |-> irint(c.wesn_orig.ylo - h.wesn.ylo, h.inc[2]),
                    yhi |-> irint(h.wesn.yhi - c.wesn_orig.yhi, h.inc[2])]
        n == Abs(del_pad.xlo) + Abs(del_pad.xhi) + Abs(del_pad.ylo) + Abs(del_pad.yhi)
        pad == [xlo |-> h.pad.xlo + del_pad.xlo, xhi |-> h.pad.xhi + del_pad.xhi,
                ylo |-> h.pad.ylo + del_pad.ylo, yhi |-> h.pad.yhi + del_pad.yhi]
        n_columns == (c.wesn_orig.xhi - c.wesn_orig.xlo) \div h.inc[1] + 1
        n_rows == (c.wesn_orig.yhi - c.wesn_orig.ylo) \div h.inc[2] + 1
    IN  IF n = 0 THEN h
        ELSE [h EXCEPT !.pad = pad, !.wesn = c.wesn_orig,
                       !.n_columns = n_columns, !.n_rows = n_rows,
                       !.mx = n_columns + pad.xlo + pad.xhi, !.my = n_rows + pad.ylo + pad.yhi,
                       !.size = (n_columns + pad.xlo + pad.xhi) * (n_rows + pad.ylo + pad.yhi)]

\* The header as lines 968-977 leave it for a pixel-registered request
pixel_header(c, h) ==
    [h EXCEPT !.registration = "pixel",
              !.wesn = c.wesn_orig,
              !.n_columns = @ - 1, !.n_rows = @ - 1,
              !.pad.xhi = @ + 1, !.pad.yhi = @ + 1]

\* The clipping loop of lines 982-985
clip_to_bounds(c, h, grid, bound) ==
    [node \in DOMAIN grid |->
        IF in_grd_loop(h, node)
        THEN LET v1 == IF c.set_limit[LO] # NONE /\ ~gmt_M_is_fnan(bound[LO][node]) /\ grid[node] < bound[LO][node]
                       THEN bound[LO][node] ELSE grid[node]
             IN  IF c.set_limit[HI] # NONE /\ ~gmt_M_is_fnan(bound[HI][node]) /\ v1 > bound[HI][node]
                 THEN bound[HI][node] ELSE v1
        ELSE grid[node]]

\* No averaging at all (used to see that C3 depends on lines 993-998)
no_average(c, grid) == grid

\* Lines 993-998: west and east edge nodes of each row set to their average
average_periodic(c, grid) ==
    [node \in DOMAIN grid |->
        LET row == (node \div c.current_mx) - 2
            col == (node % c.current_mx) - 2
            w == row_col_to_node(row, 0, c.current_mx)
        IN  IF row >= 0 /\ row < c.current_ny /\ col \in {0, c.current_nx - 1}
            THEN FDiv(grid[w] + grid[w + c.current_nx - 1], 2)
            ELSE grid[node]]

\* The grid GMT_Write_Data writes for header h: the nodes inside the pad
written_grid(h, grid) ==
    [n_columns |-> h.n_columns, n_rows |-> h.n_rows, registration |-> h.registration,
     wesn |-> h.wesn,
     z |-> [at \in (0..(h.n_rows - 1)) \X (0..(h.n_columns - 1)) |-> grid[gmt_M_ijp(h, at[1], at[2])]]]

\* [error, header, C, u, Bound, out]
surface_write_grid(ctrl, c, h, common, files, grid, bound) ==
    LET pixel == common.registration = "pixel"
        h0 == IF ~ctrl.Q.active /\ ctrl.Q.adjusted THEN shrink_to_region(c, h) ELSE h
        h1 == IF pixel THEN pixel_header(c, h0) ELSE h0
        c1 == IF pixel THEN [c EXCEPT !.n_columns = @ - 1, !.n_rows = @ - 1] ELSE c
        ld == surface_load_constraints(c1, h1, files, bound, FALSE)
        u1 == IF c1.constrained /\ ~ld.error THEN clip_to_bounds(c1, h1, grid, ld.Bound) ELSE grid
        u2 == IF c1.periodic THEN average_periodic(c1, u1) ELSE u1
    IN  IF c1.constrained /\ ld.error
        THEN [error |-> "GMT_RUNTIME_ERROR", header |-> h1, C |-> [c1 EXCEPT !.constrained = ld.constrained],
              u |-> grid, Bound |-> ld.Bound, out |-> <<>>]
        ELSE [error |-> "GMT_NOERROR", header |-> h1, C |-> c1, u |-> u2,
              Bound |-> IF c1.constrained THEN ld.Bound ELSE bound, out |-> written_grid(h1, u2)]

\* GMT_surface, lines 2117-2125: the data lie on a plane
PlaneShortcut ==
    /\ pc = "plane"
    /\ \E w \in {surface_write_grid(Ctrl, C, header, input.common, input.Lgrid,
                                      surface_restore_planar_trend(C, header,
                                          [node \in 0..(header.size - 1) |-> 0]), Bound)} :
           /\ header' = w.header
           /\ C' = w.C
           /\ u' = w.u
           /\ Bound' = w.Bound
           /\ out' = w.out
           /\ rc' = w.error
           /\ log' = [log EXCEPT !.writes = @ + Bool2Int(w.error = "GMT_NOERROR")]
    /\ data' = <<>>
    /\ pc' = "done"
    /\ UNCHANGED <<input, bl, Ctrl, status, Briggs, iter>>

\* GMT_surface, lines 2127-2130
LoadConstraints ==
    /\ pc = "load_constraints"
    /\ LET ld == surface_load_constraints(C, header, input.Lgrid, Bound, TRUE)
       IN  /\ Bound' = ld.Bound
           /\ C' = [C EXCEPT !.constrained = ld.constrained]
           /\ IF ld.error
              THEN pc' = "done" /\ rc' = "GMT_RUNTIME_ERROR" /\ data' = <<>>
              ELSE pc' = "strides" /\ rc' = rc /\ data' = data
    /\ UNCHANGED <<input, bl, Ctrl, header, u, status, Briggs, iter, out, log>>

(***************************************************************************)
(* Finite-difference coefficients (lines 286-347), for the default aspect  *)
(* ratio alpha = 1.  Tensions are in quarters, so loose = (4 - t) / 4.     *)
(***************************************************************************)
\* 4 * C->coeff[SURFACE_CONSTRAINED][k]
coeff_constrained(c, k) ==
    CASE k \in {N2, S2, W2, E2} -> 0 - (4 - c.interior_tension)
      [] k \in {N1, S1, W1, E1} -> 4 * (4 - c.interior_tension)
      [] OTHER -> 0 - 2 * (4 - c.interior_tension)

\* C->coeff[SURFACE_UNCONSTRAINED][k] = coeff_unconstrained / coeff_denominator
coeff_unconstrained(c, k) ==
    CASE k \in {N2, S2, W2, E2} -> 0 - (4 - c.interior_tension)
      [] k \in {N1, S1, W1, E1} -> 8 * (4 - c.interior_tension) + c.interior_tension
      [] OTHER -> 0 - 2 * (4 - c.interior_tension)

\* 4 / a0
coeff_denominator(c) == 80 - 16 * c.interior_tension

\* Offsets of a stencil that reaches three rows up and down (used to see
\* that C23 depends on the offsets staying within the two pad rows)
offset_of_three_rows(c, k) ==
    CASE k \in {5, 6, 7, 8} -> <<-2, -1, 1, 2>>[k - 4]
      [] k \in {1, 12} -> (IF k = 1 THEN -3 ELSE 3) * c.current_mx
      [] k \in {2, 3, 4} -> 0 - c.current_mx + (k - 3)
      [] OTHER -> c.current_mx + (k - 10)

\* The offsets of the grid of the stride before (used to see that C16
\* depends on surface_set_offset following surface_set_grid_parameters)
offset_of_previous_mx(c, k) ==
    CASE k \in {5, 6, 7, 8} -> <<-2, -1, 1, 2>>[k - 4]
      [] k \in {1, 12} -> (IF k = 1 THEN -2 ELSE 2) * c.previous_mx
      [] k \in {2, 3, 4} -> 0 - c.previous_mx + (k - 3)
      [] OTHER -> c.previous_mx + (k - 10)

surface_set_offset(c, k) ==
    CASE k = N2 -> 0 - 2 * c.current_mx
      [] k = NW -> 0 - c.current_mx - 1
      [] k = N1 -> 0 - c.current_mx
      [] k = NE -> 0 - c.current_mx + 1
      [] k = W2 -> -2
      [] k = W1 -> -1
      [] k = E1 -> 1
      [] k = E2 -> 2
      [] k = SW -> c.current_mx - 1
      [] k = S1 -> c.current_mx
      [] k = SE -> c.current_mx + 1
      [] k = S2 -> 2 * c.current_mx

\* The whole function: C->offset[N2 .. S2] set from the current_mx of c
set_offset(c) == [c EXCEPT !.offset = [k \in 1..12 |-> surface_set_offset(c, k)]]

(***************************************************************************)
(* surface_set_BCs (lines 1006-1076)                                       *)
(***************************************************************************)
\* Row and column of a node of the current (coarse) grid; the pad is -2, -1
\* and current_ny, current_ny + 1 (current_nx, current_nx + 1)
node_row(c, node) == (node \div c.current_mx) - 2
node_col(c, node) == (node % c.current_mx) - 2

\* x_0_const * u0 + x_1_const * u1 (and the same with y_0_const, y_1_const)
BC1(c, u0, u1) ==
    FDiv(4 * (4 - c.boundary_tension) * u0 + (3 * c.boundary_tension - 8) * u1, 8 - c.boundary_tension)

\* First loop (1020-1023): BC1 along the south and north sides
set_BC1_south_north(c, g) ==
    [node \in DOMAIN g |->
        LET row == node_row(c, node)
            col == node_col(c, node)
        IN  IF col >= 0 /\ col < c.current_nx /\ row = c.current_ny
            THEN BC1(c, g[node - c.current_mx], g[node - 2 * c.current_mx])
            ELSE IF col >= 0 /\ col < c.current_nx /\ row = -1
            THEN BC1(c, g[node + c.current_mx], g[node + 2 * c.current_mx])
            ELSE g[node]]

\* Lines 1024-1038: periodic or natural condition on the west and east sides
set_BC1_west_east(c, g) ==
    [node \in DOMAIN g |->
        LET row == node_row(c, node)
            col == node_col(c, node)
            n_w == c.node_nw_corner + row * c.current_mx
            n_e == c.node_ne_corner + row * c.current_mx
        IN  IF row < 0 \/ row >= c.current_ny THEN g[node]
            ELSE IF c.periodic
            THEN CASE col = -1 -> g[n_e - 1]
                   [] col = c.current_nx -> g[n_w + 1]
                   [] col = 0 \/ col = c.current_nx - 1 -> FDiv(g[n_e] + g[n_w], 2)
                   [] OTHER -> g[node]
            ELSE CASE col = -1 -> BC1(c, g[n_w], g[n_w + 1])
                   [] col = c.current_nx -> BC1(c, g[n_e], g[n_e - 1])
                   [] OTHER -> g[node]]

\* Lines 1042-1049: the four corners
set_BC_corners(c, g) ==
    LET mx == c.current_mx
        sw == c.node_sw_corner
        nw == c.node_nw_corner
        se == c.node_se_corner
        ne == c.node_ne_corner
    IN  [g EXCEPT ![sw + mx - 1] = g[sw + mx + 1] + g[sw - mx - 1] - g[sw - mx + 1],
                  ![nw - mx - 1] = g[nw - mx + 1] + g[nw + mx - 1] - g[nw + mx + 1],
                  ![se + mx + 1] = g[se + mx - 1] + g[se - mx + 1] - g[se - mx - 1],
                  ![ne - mx + 1] = g[ne - mx - 1] + g[ne + mx + 1] - g[ne + mx - 1]]

\* Lines 1053-1075: BC2 on all four sides (eps_m2 = eps_p2 = 1, two_plus = 4)
set_BC2(c, g) ==
    [node \in DOMAIN g |->
        LET row == node_row(c, node)
            col == node_col(c, node)
            mx == c.current_mx
            n_s == node - 2 * mx
            n_n == node + 2 * mx
            n_w == node + 2
            n_e == node - 2
        IN  IF col >= 0 /\ col < c.current_nx /\ row = c.current_ny + 1
            THEN g[n_s - 2 * mx] + (g[n_s - mx - 1] + g[n_s - mx + 1] - g[n_s + mx - 1] - g[n_s + mx + 1])
                 + 4 * (g[n_s + mx] - g[n_s - mx])
            ELSE IF col >= 0 /\ col < c.current_nx /\ row = -2
            THEN g[n_n + 2 * mx] + (g[n_n + mx - 1] + g[n_n + mx + 1] - g[n_n - mx - 1] - g[n_n - mx + 1])
                 + 4 * (g[n_n - mx] - g[n_n + mx])
            ELSE IF row >= 0 /\ row < c.current_ny /\ col = -2
            THEN IF c.periodic THEN g[row_col_to_node(row, c.current_nx - 1, mx) - 2]
                 ELSE g[n_w + 2] + (g[n_w - mx + 1] + g[n_w + mx + 1] - g[n_w - mx - 1] - g[n_w + mx - 1])
                      + 4 * (g[n_w - 1] - g[n_w + 1])
            ELSE IF row >= 0 /\ row < c.current_ny /\ col = c.current_nx + 1
            THEN IF c.periodic THEN g[row_col_to_node(row, 0, mx) + 2]
                 ELSE g[n_e - 2] + (g[n_e - mx - 1] + g[n_e + mx - 1] - g[n_e - mx + 1] - g[n_e + mx + 1])
                      + 4 * (g[n_e + 1] - g[n_e - 1])
            ELSE g[node]]

\* Boundary conditions that also reset a node of the grid proper (used to
\* see that C19 depends on surface_set_BCs writing the pad only)
set_BCs_into_grid(c, g) == [g EXCEPT ![c.node_nw_corner] = 0]

surface_set_BCs(c, g) == set_BC2(c, set_BC_corners(c, set_BC1_west_east(c, set_BC1_south_north(c, g))))

(***************************************************************************)
(* surface_solve_Briggs_coefficients and surface_find_nearest_constraint   *)
(* (lines 544-658)                                                         *)
(***************************************************************************)
\* xx, yy are the offsets in coordinate units, cell the current increment, so
\* the C code's fractions are xx / cell and yy / cell.  The entry keeps the
\* numerators over the common denominator Q = (xx + yy) * (cell + xx + yy):
\* b[0..3] = b[k] / Q, b[4] = b4 / Q, and sum / Q is the sum that b[5] inverts.
surface_solve_Briggs_coefficients(xx, yy, z, cell) ==
    LET s == xx + yy
        b0 == xx * xx + 2 * xx * yy + cell * xx - yy * yy - cell * yy
        b1 == 2 * s * (yy - xx + cell)
        b2 == 2 * s * (xx - yy + cell)
        b3 == 0 - xx * xx + 2 * xx * yy - cell * xx + yy * yy + cell * yy
    IN  [b |-> <<b0, b1, b2, b3>>, b4 |-> 4 * cell * cell * z,
         sum |-> b0 + b1 + b2 + b3 + 4 * cell * cell, Q |-> s * (cell + s)]

\* gmt_M_memory (NULL, ...): zeroed entries
no_Briggs == [b |-> <<0, 0, 0, 0>>, b4 |-> 0, sum |-> 0, Q |-> 1]

\* A test that takes anything within a quarter of a cell for really close
\* (used to see that C25 depends on the 5% of line 609)
close_within_quarter(dx, cell) == 4 * Abs(dx) < cell

\* |dx| < SURFACE_CLOSENESS_FACTOR for an offset dx in coordinate units
really_close(dx, cell) == SURFACE_CLOSENESS_DEN * Abs(dx) < cell

\* The clipping of lines 620-626 and 1133-1139 (LO, else HI) at node_final
clip_else(c, bound, v, node_final) ==
    IF ~c.constrained THEN v
    ELSE IF c.set_limit[LO] # NONE /\ ~gmt_M_is_fnan(bound[LO][node_final]) /\ v < bound[LO][node_final]
    THEN bound[LO][node_final]
    ELSE IF c.set_limit[HI] # NONE /\ ~gmt_M_is_fnan(bound[HI][node_final]) /\ v > bound[HI][node_final]
    THEN bound[HI][node_final]
    ELSE v

\* One pass of the loop over the data (593-657): st is [u, status, Briggs,
\* briggs_index, last_index]
nearest_constraint(c, h, bound, dat, st, k) ==
    LET row == index_to_row(dat[k].index, c.current_nx)
        col == index_to_col(dat[k].index, c.current_nx)
        node == row_col_to_node(row, col, c.current_mx)
        x0 == col_to_x(col, h.wesn.xlo, h.wesn.xhi, c.inc[1], c.current_nx)
        y0 == row_to_y(row, h.wesn.ylo, h.wesn.yhi, c.inc[2], c.current_ny)
        dx == dat[k].x - x0
        dy == dat[k].y - y0
        \* r_z_rms * current_stride * evaluate_trend (dx, dy)
        trend == FDiv(FDiv(c.plane.b * dx + c.plane.c * dy, c.plane.d) * SCALE, c.z_rms)
        node_final == gmt_M_ijp(h, c.current_stride * row, c.current_stride * col)
        z_at_node == clip_else(c, bound, dat[k].z + trend, node_final)
        quadrant == IF dy >= 0
                    THEN IF dx >= 0 THEN SURFACE_DATA_IS_IN_QUAD1 ELSE SURFACE_DATA_IS_IN_QUAD2
                    ELSE IF dx >= 0 THEN SURFACE_DATA_IS_IN_QUAD4 ELSE SURFACE_DATA_IS_IN_QUAD3
        xx == CASE quadrant = SURFACE_DATA_IS_IN_QUAD1 -> dx
                [] quadrant = SURFACE_DATA_IS_IN_QUAD2 -> dy
                [] quadrant = SURFACE_DATA_IS_IN_QUAD4 -> 0 - dy
                [] OTHER -> 0 - dx
        yy == CASE quadrant = SURFACE_DATA_IS_IN_QUAD1 -> dy
                [] quadrant = SURFACE_DATA_IS_IN_QUAD2 -> 0 - dx
                [] quadrant = SURFACE_DATA_IS_IN_QUAD4 -> dx
                [] OTHER -> 0 - dy
    IN  IF dat[k].index = st.last_index THEN st
        ELSE IF really_close(dx, c.inc[1]) /\ really_close(dy, c.inc[2])
        THEN [st EXCEPT !.last_index = dat[k].index,
                        !.status[node] = SURFACE_IS_CONSTRAINED,
                        !.u[node] = z_at_node]
        ELSE [st EXCEPT !.last_index = dat[k].index,
                        !.status[node] = quadrant,
                        !.Briggs[st.briggs_index + 1] = surface_solve_Briggs_coefficients(xx, yy, dat[k].z, c.inc[1]),
                        !.briggs_index = @ + 1]

RECURSIVE nearest_loop(_, _, _, _, _, _)
nearest_loop(c, h, bound, dat, st, k) ==
    IF k > Len(dat) THEN st
    ELSE nearest_loop(c, h, bound, dat, nearest_constraint(c, h, bound, dat, st, k), k + 1)

\* [u, status, Briggs] after the call.  The reset loop runs over the rows and
\* columns of the final grid (gmt_M_grd_loop on C->Grid).
surface_find_nearest_constraint(c, h, bound, dat, g, stat, briggs) ==
    LET reset == [node \in DOMAIN stat |->
                    IF in_grd_loop(h, node) THEN SURFACE_IS_UNCONSTRAINED ELSE stat[node]]
    IN  nearest_loop(c, h, bound, dat,
                     [u |-> g, status |-> reset, Briggs |-> briggs, briggs_index |-> 0, last_index |-> -1], 1)

(***************************************************************************)
(* surface_iterate (lines 1078-1159)                                       *)
(***************************************************************************)
\* The sum over the 12 neighbours of u_old times 4 * coeff[SURFACE_CONSTRAINED]
\* or times the numerators of coeff[SURFACE_UNCONSTRAINED]
stencil_sum(c, g, node, constrained_set) ==
    Sum([k \in 1..12 |-> g[node + c.offset[k]]
                         * (IF constrained_set THEN coeff_constrained(c, k) ELSE coeff_unconstrained(c, k))])

\* The new value of one node (lines 1117-1139) as the quotient num / den
\* before over-relaxation: (A-4) for an unconstrained node, (A-7) with the
\* Briggs entry b for a node with a datum in one of its quadrants
node_estimate(c, g, node, stat, b) ==
    IF stat = SURFACE_IS_UNCONSTRAINED
    THEN [num |-> stencil_sum(c, g, node, FALSE), den |-> coeff_denominator(c)]
    ELSE LET sum_bk_uk == Sum([k \in 1..4 |-> b.b[k] * g[node + c.offset[p[stat][k]]]])
         IN  [num |-> b.Q * stencil_sum(c, g, node, TRUE)
                      + (16 - 3 * c.interior_tension) * (sum_bk_uk + b.b4),
              den |-> 4 * b.Q * (4 - c.interior_tension) + (16 - 3 * c.interior_tension) * b.sum]

\* One pass of the loops over rows and columns: st is [u, briggs_index,
\* max_u_change, i], i counting the nodes visited (row * current_nx + col);
\* the node is visited in place (u_new and u_old are one array)
relax_node(c, h, bound, stat, briggs, st, row, col) ==
    LET node == row_col_to_node(row, col, c.current_mx)
        node_final == gmt_M_ijp(h, c.current_stride * row, c.current_stride * col)
        in_quadrant == stat[node] # SURFACE_IS_UNCONSTRAINED
        b == IF in_quadrant /\ st.briggs_index + 1 <= Len(briggs) THEN briggs[st.briggs_index + 1] ELSE no_Briggs
        e == node_estimate(c, st.u, node, stat[node], b)
        relaxed == FDiv(st.u[node] * c.relax_old * e.den + e.num * c.relax_new, 10 * e.den)
        u_00 == clip_else(c, bound, relaxed, node_final)
        u_change == Abs(u_00 - st.u[node])
    IN  IF stat[node] = SURFACE_IS_CONSTRAINED THEN [st EXCEPT !.i = @ + 1]
        ELSE [u |-> [st.u EXCEPT ![node] = u_00],
              briggs_index |-> st.briggs_index + Bool2Int(in_quadrant),
              max_u_change |-> IF u_change > st.max_u_change THEN u_change ELSE st.max_u_change,
              i |-> st.i + 1]

RECURSIVE relax_loop(_, _, _, _, _, _)
relax_loop(c, h, bound, stat, briggs, st) ==
    IF st.i >= c.current_nx * c.current_ny THEN st
    ELSE relax_loop(c, h, bound, stat, briggs,
                    relax_node(c, h, bound, stat, briggs, st, st.i \div c.current_nx, st.i % c.current_nx))

\* One pass of the do-while loop: [u, max_z_change]; a max_u_change of -1
\* (no node visited) is -1.0 in units of 1/SCALE
sweep(c, h, bound, stat, briggs, g) ==
    LET st == relax_loop(c, h, bound, stat, briggs,
                         [u |-> surface_set_BCs(c, g), briggs_index |-> 0, max_u_change |-> 0 - SCALE,
                          i |-> 0])
    IN  [u |-> st.u, max_z_change |-> st.max_u_change * c.z_rms]

current_max_iterations(c) == c.max_iterations * c.current_stride

\* max_z_change and current_limit = C.converge_limit / C.current_stride
\* brought to one denominator: max_z_change is in units of 1 / SCALE^2
scaled_change(c, max_z_change) == max_z_change * SURFACE_CONV_LIMIT_DEN * c.current_stride
scaled_limit(c) == c.converge_limit * SCALE

\* max_z_change <= current_limit (line 1151)
within_limit(c, max_z_change) == scaled_change(c, max_z_change) <= scaled_limit(c)

\* current_limit = C.converge_limit / C.current_stride (line 1088), kept as
\* numerator and denominator
current_limit(c) == <<c.converge_limit, c.current_stride>>

\* A log line whose iteration column carries the running total (used to see
\* that C12 depends on iteration_count starting at 0 in every call)
log_line_of_total(kind, c, mode, iteration_count, max_z_change) ==
    [kind |-> kind, stride |-> c.current_stride, mode |-> mode, iteration_count |-> c.total_iterations,
     max_z_change |-> max_z_change, limit |-> current_limit(c), total_iterations |-> c.total_iterations]

\* A line of the log file: the segment header of line 1094 (">") or the
\* data line of line 1150 ("data")
log_line(kind, c, mode, iteration_count, max_z_change) ==
    [kind |-> kind, stride |-> c.current_stride, mode |-> mode, iteration_count |-> iteration_count,
     max_z_change |-> max_z_change, limit |-> current_limit(c), total_iterations |-> c.total_iterations]

\* Line 2150: the column names
log_header ==
    [kind |-> "#", stride |-> 0, mode |-> GRID_NODES, iteration_count |-> 0,
     max_z_change |-> 0, limit |-> <<0, 0>>, total_iterations |-> 0]

\* Lines 1094-1095: the segment header surface_iterate (mode) writes on entry
log_segment(c, mode) ==
    IF c.logging THEN [c EXCEPT !.fp_log = Append(@, log_line(">", c, mode, 0, 0))] ELSE c

\* The call surface_iterate (mode): its locals before the first pass
\* A surface_iterate that returns to the test of the while loop whatever
\* the call (used to see that C18 depends on where each call returns to)
enter_iterate_and_loop(mode, ret) ==
    [active |-> TRUE, mode |-> mode, iteration_count |-> 0, max_z_change |-> 0, ret |-> "loop"]

\* An entry of log.phases
phase(name, c) == <<name, c.current_stride>>
iterate_phase(mode) == IF mode = GRID_DATA THEN "surface_iterate GRID_DATA" ELSE "surface_iterate GRID_NODES"
return_phase(mode) == IF mode = GRID_DATA THEN "return GRID_DATA" ELSE "return GRID_NODES"

enter_iterate(mode, ret) ==
    [active |-> TRUE, mode |-> mode, iteration_count |-> 0, max_z_change |-> 0, ret |-> ret]

\* One pass of the do-while loop of surface_iterate and, when the pass was
\* the last one, the return to GMT_surface: after the calls of lines 2192
\* and 2202 to the test of the while loop (2194), line 2203 on the way,
\* after the call of line 2200 to line 2201.
Sweep ==
    /\ pc = "iterate"
    /\ \E s \in {sweep(C, header, Bound, status, Briggs, u)} :
       LET count == iter.iteration_count + 1
           capped == count >= current_max_iterations(C)
           finished == within_limit(C, s.max_z_change) \/ capped
       IN  /\ u' = s.u
           /\ iter' = [iter EXCEPT !.iteration_count = count, !.max_z_change = s.max_z_change,
                                   !.active = ~finished]
           /\ log' = [log EXCEPT !.sweeps = @ + 1,
                                 !.hit_cap = @ \/ (capped /\ ~within_limit(C, s.max_z_change)),
                                 !.phases = IF finished THEN Append(@, phase(return_phase(iter.mode), C))
                                            ELSE @]
           /\ C' = [C EXCEPT !.total_iterations = @ + 1,
                             !.fp_log = IF C.logging
                                        THEN Append(@, log_line("data", [C EXCEPT !.total_iterations = @ + 1],
                                                                iter.mode, count, s.max_z_change))
                                        ELSE @,
                             !.previous_stride = IF finished /\ iter.ret = "loop_end"
                                                 THEN C.current_stride ELSE @]
           /\ pc' = IF ~finished THEN "iterate"
                    ELSE IF iter.ret = "nearest" THEN "nearest" ELSE "loop"
    /\ UNCHANGED <<input, bl, rc, Ctrl, header, data, status, Briggs, Bound, out>>

(***************************************************************************)
(* The strides: surface_smart_divide, surface_set_index (lines 511-542)    *)
(* and fill_in_forecast (lines 349-467)                                    *)
(***************************************************************************)
\* gmt_get_prime_factors: the prime factors of n in ascending order, each as
\* often as it divides n
RECURSIVE prime_factors_from(_, _)
prime_factors_from(n, f) ==
    IF n < 2 THEN <<>>
    ELSE IF n % f = 0 THEN <<f>> \o prime_factors_from(n \div f, f)
    ELSE prime_factors_from(n, f + 1)
gmt_get_prime_factors(n) == prime_factors_from(n, 2)

\* A division by the first factor instead of the last remaining one (used
\* to see that C15 depends on the factor line 513 picks)
divide_by_first_factor(c) ==
    [c EXCEPT !.current_stride = @ \div c.factors[1], !.n_factors = @ - 1]

surface_smart_divide(c) ==
    [c EXCEPT !.current_stride = @ \div c.factors[c.n_factors], !.n_factors = @ - 1]

\* The grid of the largest stride is kept whatever its size (used to see
\* that C17 depends on the loop of lines 2137-2140)
keep_first_stride(c, h) == c

\* The loop of lines 2137-2140
RECURSIVE divide_to_4x4(_, _)
divide_to_4x4(c, h) ==
    IF c.current_nx < 4 \/ c.current_ny < 4
    THEN divide_to_4x4(surface_set_grid_parameters(surface_smart_divide(c), h), h)
    ELSE c

\* n_factors at each call of surface_smart_divide in that loop
RECURSIVE divide_calls(_, _)
divide_calls(c, h) ==
    IF c.current_nx < 4 \/ c.current_ny < 4
    THEN <<c.n_factors>> \o divide_calls(surface_set_grid_parameters(surface_smart_divide(c), h), h)
    ELSE <<>>

\* The indices of lines 528-537
\* A reindexing that takes the last column and the last row of the active
\* grid for outside (used to see that C29 depends on the tests of line 531)
reindexed_short_of_edge(c, h, dat) ==
    [k \in 1..Len(dat) |->
        LET col == x_to_col(dat[k].x, h.wesn.xlo, c.inc[1])
            row == y_to_row(dat[k].y, h.wesn.ylo, c.inc[2], c.current_ny)
        IN  [dat[k] EXCEPT !.index = IF col < 0 \/ col >= c.current_nx - 1 \/ row < 0 \/ row >= c.current_ny - 1
                                      THEN SURFACE_OUTSIDE
                                      ELSE row_col_to_index(row, col, c.current_nx)]]

reindexed(c, h, dat) ==
    [k \in 1..Len(dat) |->
        LET col == x_to_col(dat[k].x, h.wesn.xlo, c.inc[1])
            row == y_to_row(dat[k].y, h.wesn.ylo, c.inc[2], c.current_ny)
        IN  [dat[k] EXCEPT !.index = IF col < 0 \/ col >= c.current_nx \/ row < 0 \/ row >= c.current_ny
                                      THEN SURFACE_OUTSIDE
                                      ELSE row_col_to_index(row, col, c.current_nx)]]

\* The data sets surface_set_index can leave behind: the first npoints -
\* k_skipped points of a sorted order
surface_set_index(c, h, dat) ==
    LET m == reindexed(c, h, dat)
    IN  {SubSeq(s, 1, Len(m) - n_outside(m)) : s \in QSORT_R(c, m)}

\* fill_in_forecast without its step a (used to see that C20 depends on
\* the copy of the previous grid)
grid_not_expanded(c, g, expand, i) == g

\* Step a with the loops run forward, from the first node to the last (used
\* to see that C22 depends on the direction of the copy)
RECURSIVE expand_grid_forward(_, _, _, _)
expand_grid_forward(c, g, expand, i) ==
    IF i < 0 THEN g
    ELSE LET k == c.previous_nx * c.previous_ny - 1 - i
             current_node == row_col_to_node((k \div c.previous_nx) * expand,
                                             (k % c.previous_nx) * expand, c.current_mx)
             previous_node == row_col_to_node(k \div c.previous_nx, k % c.previous_nx, c.previous_mx)
         IN  expand_grid_forward(c, [g EXCEPT ![current_node] = g[previous_node]], expand, i - 1)

\* Step a of fill_in_forecast: every node of the previous grid copied to its
\* node of the current grid, from the last node to the first
RECURSIVE expand_grid(_, _, _, _)
expand_grid(c, g, expand, i) ==
    IF i < 0 THEN g
    ELSE LET previous_row == i \div c.previous_nx
             previous_col == i % c.previous_nx
             current_node == row_col_to_node(previous_row * expand, previous_col * expand, c.current_mx)
             previous_node == row_col_to_node(previous_row, previous_col, c.previous_mx)
         IN  expand_grid(c, [g EXCEPT ![current_node] = g[previous_node]], expand, i - 1)

\* Step b: the value and the status of the node (row, col) of the current
\* grid, g being the expanded grid; C->fraction[i] is i / previous_stride
forecast_node(c, g, stat, expand, node) ==
    LET row == node_row(c, node)
        col == node_col(c, node)
        P == c.previous_stride
        east == c.current_nx - 1
        \* the bin of the node: its lower left corner and the steps from it
        j == IF row = 0 THEN 0 ELSE (expand - (row % expand)) % expand
        i == IF col = east THEN 0 ELSE col % expand
        index_00 == row_col_to_node(row + j, col - i, c.current_mx)
        index_01 == index_00 - expand * c.current_mx
        index_10 == index_00 + expand
        index_11 == index_01 + expand
        c0 == g[index_00]
        sx == g[index_10] - c0
        sy == g[index_01] - c0
        sxy == g[index_11] - g[index_10] - sy
    IN  IF row < 0 \/ row >= c.current_ny \/ col < 0 \/ col >= c.current_nx
        THEN [u |-> g[node], status |-> stat[node]]
        ELSE IF i = 0 /\ j = 0 THEN [u |-> g[node], status |-> SURFACE_IS_CONSTRAINED]
        ELSE IF col = east
        THEN [u |-> FDiv(c0 * P + j * sy, P), status |-> SURFACE_IS_UNCONSTRAINED]
        ELSE IF row = 0
        THEN [u |-> FDiv(c0 * P + i * sx, P), status |-> SURFACE_IS_UNCONSTRAINED]
        ELSE [u |-> FDiv(c0 * P * P + sy * j * P + i * (sx * P + sxy * j), P * P),
              status |-> SURFACE_IS_UNCONSTRAINED]

\* [u, status] after the call
fill_in_forecast(c, g, stat) ==
    LET expand == c.previous_stride \div c.current_stride
        copied == expand_grid(c, g, expand, c.previous_nx * c.previous_ny - 1)
    IN  [u |-> [node \in DOMAIN g |-> forecast_node(c, copied, stat, expand, node).u],
         status |-> [node \in DOMAIN stat |-> forecast_node(c, copied, stat, expand, node).status]]

(***************************************************************************)
(* GMT_surface, the multigrid loop and the output (lines 2134-2295)        *)
(***************************************************************************)
\* The nodes of the current grid that surface_find_nearest_constraint has
\* fixed, with their values
constrained_nodes(c, g, stat) ==
    [node \in {n \in DOMAIN stat : /\ stat[n] = SURFACE_IS_CONSTRAINED
                                   /\ node_row(c, n) \in 0..(c.current_ny - 1)
                                   /\ node_col(c, n) \in 0..(c.current_nx - 1)} |-> g[node]]

\* Lines 2134-2191: the first stride, the work arrays, and the data
\* constraints of the first grid; surface_iterate (GRID_DATA) is entered
Strides ==
    /\ pc = "strides"
    /\ \E stride \in {gmt_gcd_euclid(C.n_columns - 1, C.n_rows - 1)} :
       \E factors \in {gmt_get_prime_factors(stride)} :
       \E c0 \in {surface_set_grid_parameters(
                       [C EXCEPT !.current_stride = stride, !.factors = factors, !.n_factors = Len(factors)],
                       header)} :
       \E c1 \in {set_offset(divide_to_4x4(c0, header))} :
       \E sorted \in surface_set_index(c1, header, data) :
       \E c2 \in {log_segment(
                      [c1 EXCEPT !.previous_stride = c1.current_stride, !.allocated = TRUE,
                                 !.logging = Ctrl.W.active,
                                 !.fp_log = IF Ctrl.W.active THEN <<log_header>> ELSE @],
                      GRID_DATA)} :
       \E n \in {surface_find_nearest_constraint(c2, header, Bound, sorted,
                       [node \in 0..(header.size - 1) |-> 0],
                       [node \in 0..(C.mxmy - 1) |-> SURFACE_IS_UNCONSTRAINED],
                       [k \in 1..Len(sorted) |-> no_Briggs])} :
          /\ data' = sorted
          /\ C' = c2
          /\ u' = n.u
          /\ status' = n.status
          /\ Briggs' = n.Briggs
          /\ log' = [log EXCEPT !.iterate_calls = @ + 1,
                                !.divides = divide_calls(c0, header),
                                !.phases = <<phase("surface_set_offset", c2), phase("surface_set_index", c2),
                                             phase("surface_find_nearest_constraint", c2),
                                             phase(iterate_phase(GRID_DATA), c2)>>,
                                !.pinned = IF c2.current_stride = 1
                                           THEN constrained_nodes(c2, n.u, n.status) ELSE @]
    /\ iter' = enter_iterate(GRID_DATA, "loop")
    /\ pc' = "iterate"
    /\ UNCHANGED <<input, bl, rc, Ctrl, header, Bound, out>>

\* Lines 2194-2200: the next stride; surface_iterate (GRID_NODES) is entered
NextStride ==
    /\ pc = "loop"
    /\ C.current_stride > 1
    /\ \E c1 \in {set_offset(surface_set_grid_parameters(surface_smart_divide(C), header))} :
       \E sorted \in surface_set_index(c1, header, data) :
       \E f \in {fill_in_forecast(c1, u, status)} :
          /\ data' = sorted
          /\ C' = log_segment(c1, GRID_NODES)
          /\ u' = f.u
          /\ status' = f.status
          /\ log' = [log EXCEPT !.iterate_calls = @ + 1, !.divides = Append(@, C.n_factors),
                                !.phases = @ \o <<phase("surface_smart_divide", c1),
                                                   phase("surface_set_grid_parameters", c1),
                                                   phase("surface_set_offset", c1),
                                                   phase("surface_set_index", c1),
                                                   phase("fill_in_forecast", c1),
                                                   phase(iterate_phase(GRID_NODES), c1)>>]
    /\ iter' = enter_iterate(GRID_NODES, "nearest")
    /\ pc' = "iterate"
    /\ UNCHANGED <<input, bl, rc, Ctrl, header, Briggs, Bound, out>>

\* Lines 2201-2202: the data constraints of this stride; surface_iterate
\* (GRID_DATA) is entered
Nearest ==
    /\ pc = "nearest"
    /\ \E n \in {surface_find_nearest_constraint(C, header, Bound, data, u, status, Briggs)} :
          /\ u' = n.u
          /\ status' = n.status
          /\ Briggs' = n.Briggs
          /\ log' = [log EXCEPT !.iterate_calls = @ + 1,
                                !.phases = @ \o <<phase("surface_find_nearest_constraint", C),
                                                   phase(iterate_phase(GRID_DATA), C)>>,
                                !.pinned = IF C.current_stride = 1
                                           THEN constrained_nodes(C, n.u, n.status) ELSE @]
    /\ C' = log_segment(C, GRID_DATA)
    /\ iter' = enter_iterate(GRID_DATA, "loop_end")
    /\ pc' = "iterate"
    /\ UNCHANGED <<input, bl, rc, Ctrl, header, data, Bound, out>>

\* Lines 1223-1229 of surface_check_errors: the total curvature reported
\* with -V, the sum of c * c over the nodes of gmt_M_grd_loop, in units of
\* 1/SCALE^2; summed over the nodes 0 .. node of the array
curvature_term(c, g, node) ==
    g[node + c.offset[E1]] + g[node + c.offset[W1]] + g[node + c.offset[N1]]
        + g[node + c.offset[S1]] - 4 * g[node + c.offset[E1]]
RECURSIVE curvature_upto(_, _, _, _)
curvature_upto(c, h, g, node) ==
    IF node < 0 THEN 0
    ELSE curvature_upto(c, h, g, node - 1)
         + (IF in_grd_loop(h, node) THEN curvature_term(c, g, node) * curvature_term(c, g, node) ELSE 0)

\* Lines 2206-2221: surface_check_errors (which updates the boundary values)
\* at verbosity warning or higher, the plane restored, the work arrays and
\* the limit grids freed
Finish ==
    /\ pc = "loop"
    /\ C.current_stride = 1
    /\ \E g \in {IF input.common.verbose THEN surface_set_BCs(C, u) ELSE u} :
          /\ u' = surface_restore_planar_trend(C, header, g)
          /\ log' = [log EXCEPT !.phases = @ \o (IF input.common.verbose
                                                  THEN <<phase("surface_check_errors", C)>> ELSE <<>>)
                                              \o <<phase("surface_restore_planar_trend", C)>>,
                                !.curvature = IF input.common.verbose
                                              THEN <<curvature_upto(C, header, g, C.mxmy - 1)>>
                                              ELSE <<>>]
    /\ status' = <<>>
    /\ Briggs' = <<>>
    /\ Bound' = <<IF C.set_limit[LO] # NONE THEN <<>> ELSE Bound[LO],
                  IF C.set_limit[HI] # NONE THEN <<>> ELSE Bound[HI]>>
    /\ pc' = "write"
    /\ UNCHANGED <<input, bl, rc, Ctrl, header, C, data, iter, out>>

\* Lines 2290-2295: surface_write_grid and the return
WriteGrid ==
    /\ pc = "write"
    /\ \E w \in {surface_write_grid(Ctrl, C, header, input.common, input.Lgrid, u, Bound)} :
           /\ header' = w.header
           /\ C' = w.C
           /\ u' = w.u
           /\ Bound' = w.Bound
           /\ out' = w.out
           /\ rc' = w.error
           /\ log' = [log EXCEPT !.writes = @ + Bool2Int(w.error = "GMT_NOERROR")]
    /\ data' = <<>>
    /\ pc' = "done"
    /\ UNCHANGED <<input, bl, Ctrl, status, Briggs, iter>>

(***************************************************************************)
(* The state at entry of GMT_surface                                       *)
(***************************************************************************)
\* struct SURFACE_INFO after gmt_M_memset (line 2015)
C0 ==
    [n_columns |-> 0, n_rows |-> 0, mx |-> 0, my |-> 0, mxmy |-> 0, nxny |-> 0,
     periodic |-> FALSE, adjusted |-> FALSE, constrained |-> FALSE,
     wesn_orig |-> [xlo |-> 0, xhi |-> 0, ylo |-> 0, yhi |-> 0],
     current_stride |-> 0, previous_stride |-> 0, factors |-> <<>>, n_factors |-> 0,
     current_nx |-> 0, current_ny |-> 0, current_mx |-> 0, current_mxmy |-> 0,
     previous_nx |-> 0, previous_ny |-> 0, previous_mx |-> 0,
     inc |-> <<0, 0>>, info_wesn |-> [xlo |-> 0, xhi |-> 0, ylo |-> 0, yhi |-> 0],
     max_iterations |-> 0, total_iterations |-> 0,
     converge_limit |-> 0, converge_mode |-> BY_VALUE,
     relax_new |-> 0, relax_old |-> 0,
     boundary_tension |-> 0, interior_tension |-> 0,
     z_rms |-> 0, plane |-> [a |-> 0, b |-> 0, c |-> 0, d |-> 1],
     set_limit |-> <<NONE, NONE>>, limit |-> <<0, 0>>,
     logging |-> FALSE, fp_log |-> <<>>,
     node_sw_corner |-> 0, node_se_corner |-> 0, node_nw_corner |-> 0, node_ne_corner |-> 0,
     offset |-> [k \in 1..12 |-> 0],
     allocated |-> FALSE]

header0 == [n_columns |-> 0, n_rows |-> 0, mx |-> 0, my |-> 0, size |-> 0,
            wesn |-> [xlo |-> 0, xhi |-> 0, ylo |-> 0, yhi |-> 0],
            pad |-> [xlo |-> 0, xhi |-> 0, ylo |-> 0, yhi |-> 0], registration |-> "gridline"]

iter0 == [active |-> FALSE, mode |-> GRID_NODES, iteration_count |-> 0, max_z_change |-> 0, ret |-> "none"]

\* divides: the value of n_factors at each call of surface_smart_divide
\* curvature: the curvature surface_check_errors reported, if it ran
\* phases: the calls GMT_surface has made from line 2141 on and the returns
\* of surface_iterate, each with the stride at the time
log0 == [iterate_calls |-> 0, sweeps |-> 0, writes |-> 0, hit_cap |-> FALSE, pinned |-> <<>>,
         divides |-> <<>>, phases |-> <<>>, curvature |-> <<>>]

AtEntry ==
    /\ pc = "parse"
    /\ rc = "running"
    /\ Ctrl = New_Ctrl
    /\ header = header0
    /\ C = C0
    /\ data = <<>>
    /\ u = <<>>
    /\ status = <<>>
    /\ Briggs = <<>>
    /\ Bound = << <<>>, <<>> >>
    /\ iter = iter0
    /\ out = <<>>
    /\ bl = bl0
    /\ log = log0

Opt(option, mod, kind, value) == [option |-> option, mod |-> mod, kind |-> kind, value |-> value]

(***************************************************************************)
(* SpecParse: GMT_surface up to the return of parse, over option lists     *)
(***************************************************************************)
\* -Z arguments tried, in tenths
ZArgs == {-5, 0, 5, 9, 10, 14, 20, 21, 30}
\* -N arguments tried
NArgs == {0, 1, 500}
\* -T arguments tried, in quarters
TArgs == {-1, 0, 1, 4, 5}

NoInput(options, common) ==
    [options |-> options, common |-> common, records |-> <<>>, breakline |-> <<>>,
     Lgrid |-> << <<>>, <<>> >>]

CommonOK == [Rset |-> TRUE, inc |-> <<1, 1>>, cartesian |-> TRUE, periodic |-> FALSE, sug |-> <<>>,
             registration |-> "gridline", n_columns |-> 4, n_rows |-> 4]

InitParse ==
    /\ AtEntry
    /\ \E zs \in {<<>>} \cup {<<Opt("Z", "", "", z)>> : z \in ZArgs},
          ns \in {<<>>} \cup {<<Opt("N", "", "", n)>> : n \in NArgs},
          ts \in {<<>>} \cup {<<Opt("T", "", "", t)>> : t \in TArgs},
          gs \in {<<>>, <<Opt("G", "", "file", 0)>>},
          qs \in {<<>>, <<Opt("Q", "", "", 0)>>},
          Rset \in BOOLEAN, incx \in {0, 1} :
          input = NoInput(zs \o ns \o ts \o gs \o qs,
                          [CommonOK EXCEPT !.Rset = Rset, !.inc = <<incx, 1>>])

NextParse == Parse

SpecParse == InitParse /\ [][NextParse]_vars

(***************************************************************************)
(* Spec: whole runs of GMT_surface over small grids and tables             *)
(***************************************************************************)
\* The largest -N argument tried
MaxN == 3
\* The largest number of nodes per side of the grids tried
MaxSide == 7

Rec(x, y, z) == [x |-> x, y |-> y, z |-> z]

\* Tables: points of one plane; points on nodes; points off the nodes; a
\* point on a node of the west edge; two points of one bin; nothing usable
Tables ==
    { <<Rec(0, 0, 0), Rec(12, 0, 48), Rec(0, 12, 24), Rec(12, 12, 72), Rec(4, 8, 32)>>,
      <<Rec(4, 4, 16), Rec(8, 8, -16), Rec(4, 8, 32), Rec(12, 0, 0)>>,
      <<Rec(5, 5, 16), Rec(9, 2, -8), Rec(2, 10, 32)>>,
      <<Rec(0, 4, 32), Rec(8, 8, -16), Rec(4, 0, 16)>>,
      <<Rec(4, 4, 16), Rec(5, 3, 48), Rec(8, 8, -16), Rec(0, 12, 0)>>,
      <<Rec(40, 40, 16), Rec(4, 4, NaN), Rec(-8, 4, 16)>>,
      <<>> }

\* Breaklines (-D), each vertex a segment of its own
Breaklines == { <<Rec(5, 5, -16)>>, <<Rec(0, 4, 48)>>, <<Rec(4, 4, 0), Rec(12, 8, 16)>> }

\* A limit grid file of n_columns x n_rows nodes, z at every node
LimitFile(n_columns, n_rows, z) ==
    [n_columns |-> n_columns, n_rows |-> n_rows, z |-> [k \in 1..(n_columns * n_rows) |-> z]]

\* -L choices: the options and the grid files they name
Limits(n_columns, n_rows) ==
    { [options |-> <<>>, files |-> << <<>>, <<>> >>],
      [options |-> <<Opt("L", "l", "", 8)>>, files |-> << <<>>, <<>> >>],
      [options |-> <<Opt("L", "u", "", 24)>>, files |-> << <<>>, <<>> >>],
      [options |-> <<Opt("L", "l", "", 0), Opt("L", "u", "", 24)>>, files |-> << <<>>, <<>> >>],
      [options |-> <<Opt("L", "l", "d", 0), Opt("L", "u", "d", 0)>>, files |-> << <<>>, <<>> >>],
      [options |-> <<Opt("L", "l", "file", 0)>>, files |-> <<LimitFile(n_columns, n_rows, 8), <<>> >>],
      [options |-> <<Opt("L", "u", "file", 0)>>, files |-> << <<>>, LimitFile(n_columns - 1, n_rows - 1, 24)>>] }

\* The invocations tried: a grid of side 4 runs at stride 1 only, a grid of
\* side MaxSide at strides 2 and 1
InvocationsOf(side) ==
    { [options |-> <<Opt("G", "", "file", 0)>> \o ns \o cs \o ds \o l.options,
       common |-> [Rset |-> TRUE, inc |-> <<1, 1>>, cartesian |-> ~periodic, periodic |-> periodic,
                   sug |-> <<>>,
                   registration |-> reg, verbose |-> verbose, n_columns |-> side, n_rows |-> side],
       records |-> recs,
       breakline |-> IF ds = <<>> THEN <<>> ELSE brk,
       Lgrid |-> l.files] :
      periodic \in BOOLEAN, reg \in {"gridline", "pixel"}, verbose \in BOOLEAN,
      ns \in {<<Opt("N", "", "", 1)>>, <<Opt("N", "", "", MaxN)>>},
      cs \in {<<>>, <<Opt("C", "", "", 4)>>},
      ds \in {<<>>, <<Opt("D", "", "file", 0)>>},
      recs \in Tables, brk \in Breaklines, l \in Limits(side, side) }

Invocations == InvocationsOf(4) \cup InvocationsOf(MaxSide)

\* Invocations that differ in few respects from the plainest one
Plain(i) ==
    LET n == Bool2Int(i.common.n_columns # 4) + Bool2Int(i.common.periodic)
             + Bool2Int(i.common.registration = "pixel") + Bool2Int(~i.common.verbose)
             + Bool2Int(Len(i.options) > 2)
    IN  n <= 2 /\ (i.breakline = <<>> \/ i.breakline = <<Rec(5, 5, -16)>> \/ Len(i.options) = 3)

\* The same runs with a log file (-W), for the invocations without -C, -D
\* and -L on a Cartesian gridline-registered grid
Logged ==
    { [i EXCEPT !.options = @ \o <<Opt("W", "", "file", 0)>>] :
      i \in {j \in Invocations : /\ Len(j.options) = 2 /\ ~j.common.periodic
                                  /\ j.common.registration = "gridline"} }

\* Runs on a grid of side 4 for which gmt_optimal_dim_for_surface suggests
\* a larger one: 3 more columns and rows (side 7), or 2 more columns and 3
\* more rows (6 x 7 nodes)
Suggestions == {<<3, 3>>, <<2, 3>>}
Suggested ==
    { [i EXCEPT !.common.sug = sug] :
      i \in {j \in InvocationsOf(4) : /\ Len(j.options) = 2 /\ ~j.common.periodic
                                       /\ j.common.verbose},
      sug \in Suggestions }

\* Runs on larger grids, whose strides have two and three prime factors:
\* 13 x 13 nodes (stride 12, sweeps at 4, 2 and 1), 5 x 9 nodes (stride 4,
\* sweeps at 1 only), 17 x 9 nodes (stride 8, sweeps at 2 and 1) and
\* 10 x 10 nodes (stride 9, sweeps at 3 and 1)
DeepSides == {<<13, 13>>, <<5, 9>>, <<17, 9>>, <<10, 10>>}
Deep ==
    { [options |-> <<Opt("G", "", "file", 0), Opt("N", "", "", 1)>> \o ws,
       common |-> [Rset |-> TRUE, inc |-> <<1, 1>>, cartesian |-> TRUE, periodic |-> FALSE,
                   sug |-> <<>>, registration |-> "gridline", verbose |-> TRUE,
                   n_columns |-> side[1], n_rows |-> side[2]],
       records |-> <<Rec(0, 0, 0), Rec(12, 20, 48), Rec(16, 30, -16), Rec(5, 5, 16)>>,
       breakline |-> <<>>,
       Lgrid |-> << <<>>, <<>> >>] :
      side \in DeepSides, ws \in {<<>>, <<Opt("W", "", "file", 0)>>} }

\* Runs on regions of fewer than 4 nodes in a direction
SmallSides == {<<3, 3>>, <<3, 5>>, <<6, 3>>, <<2, 9>>}
Small ==
    { [options |-> <<Opt("G", "", "file", 0), Opt("N", "", "", 1)>>,
       common |-> [Rset |-> TRUE, inc |-> <<1, 1>>, cartesian |-> TRUE, periodic |-> FALSE,
                   sug |-> <<>>, registration |-> reg, verbose |-> TRUE,
                   n_columns |-> side[1], n_rows |-> side[2]],
       records |-> recs,
       breakline |-> <<>>,
       Lgrid |-> << <<>>, <<>> >>] :
      side \in SmallSides, reg \in {"gridline", "pixel"}, recs \in Tables }

\* Runs on a grid of side 4 with two records in one bin, one of them on the
\* node of a gridline-registered grid and one on the node of a
\* pixel-registered grid
Crowded ==
    { [options |-> <<Opt("G", "", "file", 0), Opt("N", "", "", 1)>>,
       common |-> [Rset |-> TRUE, inc |-> <<1, 1>>, cartesian |-> TRUE, periodic |-> FALSE,
                   sug |-> <<>>, registration |-> reg, verbose |-> TRUE,
                   n_columns |-> 4, n_rows |-> 4],
       records |-> recs,
       breakline |-> <<>>,
       Lgrid |-> << <<>>, <<>> >>] :
      reg \in {"gridline", "pixel"},
      recs \in { <<Rec(4, 4, 16), Rec(3, 3, 48), Rec(8, 8, -16), Rec(0, 12, 0), Rec(12, 4, 32)>>,
                 <<Rec(3, 3, 48), Rec(4, 4, 16), Rec(8, 8, -16), Rec(0, 12, 0), Rec(12, 4, 32)>> } }

\* Runs on a grid of 13 x 13 nodes with records in the half cell beyond the
\* east and south edges of the region, and one record farther out
Edged ==
    { [options |-> <<Opt("G", "", "file", 0), Opt("N", "", "", 1)>>,
       common |-> [Rset |-> TRUE, inc |-> <<1, 1>>, cartesian |-> TRUE, periodic |-> FALSE,
                   sug |-> <<>>, registration |-> "gridline", verbose |-> v,
                   n_columns |-> 13, n_rows |-> 13],
       records |-> <<Rec(49, 1, 16), Rec(0, -1, 0), Rec(12, 20, 48), Rec(16, 30, -16), Rec(50, 10, 5)>>,
       breakline |-> <<>>,
       Lgrid |-> << <<>>, <<>> >>] : v \in BOOLEAN }

Init ==
    /\ AtEntry
    /\ input \in {i \in Invocations : Plain(i)} \cup Logged \cup Suggested \cup Deep \cup Small
                 \cup Crowded \cup Edged

Next ==
    \/ Parse
    \/ Setup
    \/ ReadData
    \/ AddBreakline
    \/ Prepare
    \/ PlaneShortcut
    \/ LoadConstraints
    \/ Strides
    \/ Sweep
    \/ NextStride
    \/ Nearest
    \/ Finish
    \/ WriteGrid

Spec == Init /\ [][Next]_vars

\* GMT_surface runs as one sequential thread: it takes its next step
\* whenever it has one.  A step is possible exactly until the function has
\* returned (pc = "done"), so this is WF_vars(Next) with its enabling
\* condition written out.
SpecFair == Spec /\ ([]<>(pc = "done") \/ []<><<Next>>_vars)

(***************************************************************************)
(* SpecBreakline: GMT_surface up to the end of the loop over the segments  *)
(* of surface_interpolate_add_breakline, for breakline tables with         *)
(* segments of one, two and three vertices on a grid of 6 x 4 nodes        *)
(***************************************************************************)
Vertex(x, y) == [x |-> x, y |-> y]
\* Segments: along the south edge over five bins; two pieces; one vertex; a
\* diagonal over the grid; a vertex repeated; a line that leaves the grid
Segments ==
    { <<Vertex(0, 0), Vertex(16, 0)>>,
      <<Vertex(2, 2), Vertex(6, 7), Vertex(14, 7)>>,
      <<Vertex(8, 8)>>,
      <<Vertex(0, 12), Vertex(20, 0)>>,
      <<Vertex(4, 4), Vertex(4, 4)>>,
      <<Vertex(0, 4), Vertex(40, 4)>> }
BreaklineTables == {<<a>> : a \in Segments} \cup {<<a, b>> : a \in Segments, b \in Segments}

BreaklineRuns ==
    { [options |-> <<Opt("G", "", "file", 0), Opt("N", "", "", 1), Opt("D", "", "file", 0)>>,
       common |-> [Rset |-> TRUE, inc |-> <<1, 1>>, cartesian |-> TRUE, periodic |-> FALSE,
                   sug |-> <<>>, registration |-> "gridline", verbose |-> FALSE,
                   n_columns |-> 6, n_rows |-> 4],
       records |-> <<Rec(4, 4, 16), Rec(8, 8, -16), Rec(4, 8, 32), Rec(12, 0, 0)>>,
       breakline |-> <<>>,
       segments |-> T,
       Lgrid |-> << <<>>, <<>> >>] : T \in BreaklineTables }

InitBreakline == AtEntry /\ input \in BreaklineRuns

NextBreakline ==
    \/ Parse
    \/ Setup
    \/ ReadData
    \/ EnterBreakline
    \/ InterpolateRow
    \/ StartReduction
    \/ ReducePoint
    \/ EndSegment
    \/ StoppedAfterOverrun

SpecBreakline == InitBreakline /\ [][NextBreakline]_vars

\* The -Z argument of the invocation, when one is given
HasZ == \E k \in 1..Len(input.options) : input.options[k].option = "Z"
ZArg == input.options[CHOOSE k \in 1..Len(input.options) : input.options[k].option = "Z"].value

\* Claim C10: option parsing rejects every over-relaxation value outside
\* [1, 2] (10..20 tenths) and accepts every value inside it: once parse has
\* returned for an invocation with -Z, a value outside the interval has
\* given GMT_PARSE_ERROR, and a value inside has not been the cause of one
\* (with -Z as the only option that parse could object to, parse succeeded).
C10_RelaxationRange ==
    (pc # "parse" /\ HasZ) =>
        /\ (ZArg < 10 \/ ZArg > 20) => rc = "GMT_PARSE_ERROR"
        /\ (ZArg >= 10 /\ ZArg <= 20 /\ input.common.Rset /\ input.common.inc[1] > 0
              /\ Ctrl.N.value >= 1 /\ (Ctrl.G.file \/ Ctrl.Q.active)) => rc # "GMT_PARSE_ERROR"

\* What parse does enforce for -Z: values below 0 or above 2 are rejected,
\* and any value of [0, 2] is accepted
C10_RelaxationRangeOfCode ==
    (pc # "parse" /\ HasZ) =>
        /\ (ZArg < 0 \/ ZArg > 20) => rc = "GMT_PARSE_ERROR"
        /\ (ZArg >= 0 /\ ZArg <= 20 /\ input.common.Rset /\ input.common.inc[1] > 0
              /\ Ctrl.N.value >= 1 /\ (Ctrl.G.file \/ Ctrl.Q.active)) => rc # "GMT_PARSE_ERROR"

\* -Z0.5 alone among the checked options has been accepted
C10_HalfAccepted == pc = "setup" /\ HasZ /\ ZArg = 5

(***************************************************************************)
(* Properties of whole runs (Spec)                                         *)
(***************************************************************************)
\* Columns and rows a suggested larger region adds, and how they fall on
\* the sides
more_columns == IF input.common.sug = <<>> THEN 0 ELSE input.common.sug[1]
more_rows == IF input.common.sug = <<>> THEN 0 ELSE input.common.sug[2]
more_west == more_columns \div 2
more_east == (more_columns \div 2) + (more_columns % 2)
more_south == more_rows \div 2
more_north == (more_rows \div 2) + (more_rows % 2)

\* The west, east, south and north ends of the grid that is solved, in
\* coordinate units
x_min ==
    IF input.common.sug = <<>> THEN 0
    ELSE (IF input.common.registration = "pixel" THEN 0 - SUB \div 2 ELSE 0) - more_west * SUB
y_min ==
    IF input.common.sug = <<>> THEN 0
    ELSE (IF input.common.registration = "pixel" THEN 0 - SUB \div 2 ELSE 0) - more_south * SUB
x_max == x_min + (input.common.n_columns + more_columns - 1) * SUB
y_max == y_min + (input.common.n_rows + more_rows - 1) * SUB

\* A record of the table passes the filters of the reader: z is a number,
\* the point is inside the domain extended by one cell on each side, and its
\* row and column are rows and columns of the grid (a longitude within half a
\* cell of the east edge of a periodic grid belongs to column 0)
Survives(r) ==
    /\ r.z # NaN
    /\ r.x >= x_min - SUB /\ r.x <= x_max + SUB
    /\ r.y >= y_min - SUB /\ r.y <= y_max + SUB
    /\ \/ input.common.periodic /\ 2 * (x_max - r.x) < SUB
       \/ 2 * r.x >= 2 * x_min - SUB /\ 2 * r.x < 2 * x_max + SUB
    /\ 2 * r.y > 2 * y_min - SUB /\ 2 * r.y <= 2 * y_max + SUB

NoRecordSurvives == \A k \in 1..Len(input.records) : ~Survives(input.records[k])

\* Claim C8: when no input record survives filtering, no sweep is ever run
\* and no grid is ever written, and once the reader has returned the module
\* has returned GMT_RUNTIME_ERROR.
C8_NoUsableDataIsFatal ==
    NoRecordSurvives =>
        /\ log.sweeps = 0 /\ log.iterate_calls = 0 /\ log.writes = 0 /\ out = <<>>
        /\ (pc \notin {"parse", "setup", "read_data"} /\ rc # "GMT_PARSE_ERROR")
              => (pc = "done" /\ rc = "GMT_RUNTIME_ERROR")

\* A run over a table with records, none of them usable, has ended
C8_AllRecordsFiltered ==
    /\ pc = "done" /\ rc = "GMT_RUNTIME_ERROR"
    /\ Len(input.records) > 0 /\ NoRecordSurvives

\* The value the fitted plane has at row, col of the written grid, the station
\* (col, n_rows - 1 - row) of the node counted in cells from the south-west
\* node of the grid that was solved (h is the header of the written grid)
plane_at(c, h, row, col) ==
    evaluate_plane(c, (col + h.pad.xlo - 2) * SUB, (c.current_ny - 1 - (row + h.pad.yhi - 2)) * SUB)

\* Claim C4: when surface_rescale_z_values returns 1 (the detrended data have
\* no RMS), the next step ends the run: surface_iterate has not been called
\* (total_iterations is 0), no Briggs and status arrays exist, every node of
\* the written grid holds the fitted plane at (col, n_rows - 1 - row), one
\* grid has been written and the module returns GMT_NOERROR.
C4_PlaneShortcut ==
    [][pc = "plane" =>
          /\ pc' = "done" /\ rc' = "GMT_NOERROR"
          /\ C'.total_iterations = 0 /\ log'.sweeps = 0 /\ log'.iterate_calls = 0
          /\ Briggs' = <<>> /\ status' = <<>>
          /\ log'.writes = 1
          /\ \A at \in DOMAIN out'.z : out'.z[at] = plane_at(C', header', at[1], at[2])]_vars

\* A run over data on a sloping plane has ended with the plane written
C4_SlopingPlaneWritten ==
    /\ pc = "done" /\ rc = "GMT_NOERROR" /\ C.total_iterations = 0 /\ log.writes = 1
    /\ C.plane.b # 0 /\ C.plane.c # 0
    /\ \E at \in DOMAIN out.z : out.z[at] # 0

\* Claim C9: every return with a code other than GMT_NOERROR happens before
\* the first sweep, and a run that has performed a sweep ends by writing the
\* grid and returning GMT_NOERROR.
C9_NoAbortAfterFirstSweep ==
    (pc = "done" /\ log.sweeps > 0) => (rc = "GMT_NOERROR" /\ log.writes = 1 /\ out # <<>>)

\* The stride-1 bin of a point inside the grid
bin_of(r) ==
    row_col_to_index(y_to_row(r.y, 0, SUB, input.common.n_rows), x_to_col(r.x, 0, SUB),
                     input.common.n_columns)

\* The bins of the stride-1 grid that hold a breakline point
breakline_bins ==
    {bin_of(input.breakline[k]) : k \in {j \in 1..Len(input.breakline) :
        /\ input.breakline[j].z # NaN
        /\ x_to_col(input.breakline[j].x, 0, SUB) \in 0..(input.common.n_columns - 1)
        /\ y_to_row(input.breakline[j].y, 0, SUB, input.common.n_rows) \in 0..(input.common.n_rows - 1)}}

\* Claim C5: whenever a bin holds a breakline point besides any number of
\* ordinary points, the one point kept for the bin by
\* surface_throw_away_unusables is a breakline point, and at every stride
\* the point surface_find_nearest_constraint uses for a bin (the first of
\* the bin in the sorted data) is a breakline point when the bin holds one.
C5_BreaklineOverride ==
    /\ (pc \in {"plane", "load_constraints", "strides"}) =>
          \A k \in 1..Len(data) :
              /\ data[k].index \in breakline_bins => data[k].kind = SURFACE_BREAKLINE
              /\ \A j \in 1..Len(data) : j # k => data[j].index # data[k].index
    /\ (pc \in {"iterate", "loop", "nearest"}) =>
          \A k \in 1..Len(data) :
              (/\ k = 1 \/ data[k - 1].index # data[k].index
               /\ \E j \in 1..Len(data) : data[j].index = data[k].index /\ data[j].kind = SURFACE_BREAKLINE)
                  => data[k].kind = SURFACE_BREAKLINE

\* The breakline point of a bin has been kept though the table has a point
\* of the same bin that lies on the node
C5_BreaklineKeptOverNearerPoint ==
    /\ pc = "load_constraints"
    /\ \E k \in 1..Len(data) :
          /\ data[k].kind = SURFACE_BREAKLINE
          /\ \E i \in 1..Len(input.records) :
                /\ Survives(input.records[i])
                /\ input.records[i].x % SUB = 0 /\ input.records[i].y % SUB = 0
                /\ bin_of(input.records[i]) = data[k].index
          /\ data[k].x % SUB # 0

\* The limit of one end at a node, as reloaded for the output; NaN where none
LimitAtNode(end, node) == IF C.set_limit[end] = NONE THEN NaN ELSE Bound[end][node]

\* The value written for a node that holds the normalized value v when the
\* solve ends: v rescaled, the plane added, clipped to the limits
written_value(node, v) ==
    LET z == FDiv(v * C.z_rms, SCALE)
             + evaluate_plane(C, node_col(C, node) * SUB, (C.current_ny - 1 - node_row(C, node)) * SUB)
        lo == IF C.constrained THEN LimitAtNode(LO, node) ELSE NaN
        hi == IF C.constrained THEN LimitAtNode(HI, node) ELSE NaN
        z1 == IF lo # NaN /\ z < lo THEN lo ELSE z
    IN  IF hi # NaN /\ z1 > hi THEN hi ELSE z1

\* Claim C1: once surface_find_nearest_constraint has marked a node
\* constrained at stride 1 and stored the (clipped) datum value there, no
\* later step changes the normalized value at that node before the solve
\* ends, and the grid written holds that value (rescaled, with the plane
\* restored, clipped to the limits) at the node.  This is claimed for every
\* grid, periodic ones and nodes of the west and east edge columns included.
C1_FixedPointsKept ==
    /\ (pc \in {"iterate", "loop"} /\ C.current_stride = 1) =>
          \A node \in DOMAIN log.pinned : u[node] = log.pinned[node]
    /\ (pc = "done" /\ out # <<>>) =>
          \A node \in DOMAIN log.pinned :
              in_grd_loop(header, node) => u[node] = written_value(node, log.pinned[node])

\* Claim C1 for grids that are not periodic
C1_FixedPointsKeptUnlessPeriodic == input.common.periodic \/ C1_FixedPointsKept

\* A call of surface_iterate has returned and no other has been entered
IterateReturned == ~iter.active /\ iter.iteration_count >= 1

\* Claim C6: when a call of surface_iterate at stride s has returned, the max
\* |dz| of its final sweep is strictly less than convergence_limit / s, or
\* the call has performed max_iterations * s sweeps.
C6_BelowLimitOrCapped ==
    IterateReturned =>
        \/ scaled_change(C, iter.max_z_change) < scaled_limit(C)
        \/ iter.iteration_count >= current_max_iterations(C)

\* Claim C7: a call of surface_iterate at stride s performs at least 1 and at
\* most max_iterations * s sweeps; it goes on only while the last sweep's
\* max |du| * z_rms was above convergence_limit / s and stops at the first
\* sweep where it is not; and a run in which the cap was hit without reaching
\* the limit still ends with the grid written and GMT_NOERROR.
C7_SweepLoopTerminates ==
    /\ iter.iteration_count <= current_max_iterations(C) \/ iter.ret = "none"
    /\ (pc = "iterate" /\ iter.iteration_count >= 1) =>
          (~within_limit(C, iter.max_z_change) /\ iter.iteration_count < current_max_iterations(C))
    /\ (pc \in {"loop", "nearest"}) =>
          /\ IterateReturned
          /\ within_limit(C, iter.max_z_change) \/ iter.iteration_count = current_max_iterations(C)
    /\ (pc = "done" /\ log.hit_cap) => (rc = "GMT_NOERROR" /\ log.writes = 1 /\ out # <<>>)

\* Claim C2: in every grid the program writes, each node whose lower and
\* upper limits are both numbers lies between them.
C2_BoundRespect ==
    (pc = "done" /\ out # <<>>) =>
        \A at \in DOMAIN out.z :
            LET node == gmt_M_ijp(header, at[1], at[2])
                lo == IF Ctrl.L.mode[LO] = SURFACE THEN input.Lgrid[LO].z[at[1] * out.n_columns + at[2] + 1]
                      ELSE IF Ctrl.L.mode[LO] = NONE THEN NaN ELSE C.limit[LO]
                hi == IF Ctrl.L.mode[HI] = SURFACE THEN input.Lgrid[HI].z[at[1] * out.n_columns + at[2] + 1]
                      ELSE IF Ctrl.L.mode[HI] = NONE THEN NaN ELSE C.limit[HI]
            IN  (lo # NaN /\ hi # NaN) => (lo <= out.z[at] /\ out.z[at] <= hi)

HasT == \E k \in 1..Len(input.options) : input.options[k].option = "T"
TArg == input.options[CHOOSE k \in 1..Len(input.options) : input.options[k].option = "T"].value

fp_log == C.fp_log
data_lines == SelectSeq(fp_log, LAMBDA l : l.kind = "data")

\* The position in the log of the segment header that starts the call of
\* surface_iterate that wrote line k
segment_of(k) == CHOOSE j \in 1..k : fp_log[j].kind = ">" /\ \A m \in (j + 1)..k : fp_log[m].kind = "data"

\* The counts the finished calls of surface_iterate returned: the iteration
\* count of the last data line of each segment but the one being written
returned_counts ==
    [k \in 1..Len(fp_log) |->
        IF /\ fp_log[k].kind = "data"
           /\ (IF k = Len(fp_log) THEN ~iter.active ELSE fp_log[k + 1].kind # "data")
        THEN fp_log[k].iteration_count ELSE 0]

\* Claim C12: with logging enabled, one data line is written per sweep; in
\* one call of surface_iterate the logged iteration count runs 1, 2, 3, ...
\* from the segment header of the call on; the logged total count grows by
\* exactly 1 from line to line over the whole run and ends as the number of
\* sweeps made, which is the sum of the counts the calls returned; stride
\* and limit of a line are current_stride and converge_limit /
\* current_stride of its call.
C12_SweepLog ==
    C.logging =>
        /\ Len(data_lines) = log.sweeps
        /\ C.total_iterations = log.sweeps
        /\ ~iter.active => C.total_iterations = Sum(returned_counts)
        /\ \A k \in 1..Len(data_lines) : data_lines[k].total_iterations = k
        /\ \A k \in 1..Len(fp_log) :
              fp_log[k].kind = "data" =>
                 /\ k > 1
                 /\ fp_log[k].iteration_count = k - segment_of(k)
                 /\ fp_log[k].stride = fp_log[segment_of(k)].stride
                 /\ fp_log[k].mode = fp_log[segment_of(k)].mode
                 /\ fp_log[k].limit = fp_log[segment_of(k)].limit
                 /\ fp_log[k].limit = <<C.converge_limit, fp_log[k].stride>>
        /\ iter.active =>
              /\ fp_log[Len(fp_log) - iter.iteration_count].kind = ">"
              /\ fp_log[Len(fp_log) - iter.iteration_count].stride = C.current_stride
              /\ fp_log[Len(fp_log) - iter.iteration_count].mode = iter.mode

\* A logged run is over with two calls of surface_iterate of more than one
\* sweep each behind it
C12_TwoLoggedCalls ==
    /\ pc = "done" /\ C.logging
    /\ \E j, k \in 1..Len(fp_log) :
          /\ j < k
          /\ fp_log[j].kind = "data" /\ fp_log[j].iteration_count >= 2
          /\ fp_log[k].kind = "data" /\ fp_log[k].iteration_count >= 2
          /\ fp_log[j].stride > fp_log[k].stride

(***************************************************************************)
(* Properties of runs on a suggested larger region (Spec)                  *)
(***************************************************************************)
\* The region of the grid that is solved when a larger region was adopted
solved_region ==
    IF input.common.registration = "pixel" THEN half_cell_up(Ctrl.Q.wesn) ELSE Ctrl.Q.wesn


\* Coordinates of node (row, col) of the written grid, and of node (row, col)
\* of the grid that was solved
written_x(col) == out.wesn.xlo + col * SUB + (IF out.registration = "pixel" THEN SUB \div 2 ELSE 0)
written_y(row) == out.wesn.yhi - row * SUB - (IF out.registration = "pixel" THEN SUB \div 2 ELSE 0)
solved_x(col) == solved_region.xlo + col * SUB
solved_y(row) == solved_region.yhi - row * SUB

\* Claim C13: when a larger region was adopted, it adds m div 2 columns on
\* the west and m div 2 + m mod 2 on the east (likewise rows, south and
\* north) and contains the requested region; on output each pad has grown
\* by the number of cells added on its side, the written grid has the
\* requested region and the requested numbers of rows and columns, and each
\* written node holds the solved value of the node at the same coordinates.
C13_RegionTrim ==
    (pc = "done" /\ rc = "GMT_NOERROR" /\ Ctrl.Q.adjusted) =>
        LET pixel == input.common.registration = "pixel"
            one == IF pixel THEN 1 ELSE 0
        IN  /\ C.wesn_orig.xlo - solved_region.xlo = more_west * SUB
            /\ solved_region.xhi - C.wesn_orig.xhi = more_east * SUB
            /\ C.wesn_orig.ylo - solved_region.ylo = more_south * SUB
            /\ solved_region.yhi - C.wesn_orig.yhi = more_north * SUB
            /\ header.pad = [xlo |-> 2 + more_west, xhi |-> 2 + more_east + one,
                             ylo |-> 2 + more_south, yhi |-> 2 + more_north + one]
            /\ out.wesn = C.wesn_orig
            /\ out.n_columns = input.common.n_columns - one
            /\ out.n_rows = input.common.n_rows - one
            /\ \A row \in 0..(out.n_rows - 1), col \in 0..(out.n_columns - 1) :
                  \E r \in 0..(C.current_ny - 1), c \in 0..(C.current_nx - 1) :
                     /\ solved_x(c) = written_x(col)
                     /\ solved_y(r) = written_y(row)
                     /\ out.z[<<row, col>>] = u[row_col_to_node(r, c, C.current_mx)]

\* The same for gridline-registered output only
C13_RegionTrimOfGridlineOutput ==
    input.common.registration = "gridline" => C13_RegionTrim

\* A gridline-registered grid was written after a run on a larger region of
\* 2 more columns (one on each side) and 3 more rows (one south, two north)
C13_TrimmedGridWritten ==
    /\ pc = "done" /\ rc = "GMT_NOERROR" /\ Ctrl.Q.adjusted /\ log.writes = 1
    /\ input.common.registration = "gridline" /\ input.common.sug = <<2, 3>>
    /\ C.total_iterations > 0
    /\ \E at \in DOMAIN out.z : out.z[at] # 0

(***************************************************************************)
(* Properties of the data-driven limits (Spec)                             *)
(***************************************************************************)
\* The z of all constraints taken in: the accepted records and the appended
\* breakline points, as C.data holds them before the plane is removed
ingested_z == {data[k].z : k \in 1..Len(data)}

\* Claim C14: in the modes 'data minimum' and 'data maximum' the constant
\* limit equals the minimum and the maximum z over all constraints taken in,
\* the accepted records and the appended breakline points: once the data
\* and the breaklines are read, C.limit[LO] is the least and C.limit[HI] the
\* largest z of C.data.
C14_DataDrivenBounds ==
    pc = "prepare" =>
        /\ C.set_limit[LO] = DATA => \A z \in ingested_z : C.limit[LO] <= z
        /\ C.set_limit[LO] = DATA => C.limit[LO] \in ingested_z
        /\ C.set_limit[HI] = DATA => \A z \in ingested_z : C.limit[HI] >= z
        /\ C.set_limit[HI] = DATA => C.limit[HI] \in ingested_z

\* The same for runs without breaklines
C14_DataDrivenBoundsOfRecords ==
    ~Ctrl.D.active => C14_DataDrivenBounds

(***************************************************************************)
(* Properties of the stride schedule (SpecFair, Spec)                      *)
(***************************************************************************)
\* The multigrid schedule is under way: from the first call of
\* surface_iterate to the last test of the while loop of line 2194
Scheduled == pc \in {"iterate", "loop", "nearest"}

\* The product of the remaining factors factors[0 .. n_factors-1]
RECURSIVE product_of_first(_, _)
product_of_first(f, n) == IF n = 0 THEN 1 ELSE f[n] * product_of_first(f, n - 1)
remaining_product == product_of_first(C.factors, C.n_factors)

\* Claim C15: throughout the schedule the product of the remaining factors
\* equals current_stride; each surface_smart_divide of the main loop
\* replaces the stride by stride / p for the last remaining factor p, which
\* is at least 2 and divides the stride, so the strides of the sweeps
\* strictly decrease and each divides the one before; the main loop ends,
\* and it ends at stride 1 with no factor left.
C15_StrideSchedule ==
    /\ [](Scheduled => /\ C.n_factors >= 0 /\ C.n_factors <= Len(C.factors)
                       /\ \A k \in 1..Len(C.factors) : C.factors[k] >= 2
                       /\ remaining_product = C.current_stride)
    /\ [][(Scheduled /\ C'.current_stride # C.current_stride) =>
             /\ pc = "loop" /\ C.n_factors >= 1
             /\ C.factors[C.n_factors] >= 2
             /\ C.current_stride % C.factors[C.n_factors] = 0
             /\ C'.current_stride = C.current_stride \div C.factors[C.n_factors]
             /\ C'.n_factors = C.n_factors - 1
             /\ C'.current_stride < C.current_stride
             /\ C.current_stride % C'.current_stride = 0]_vars
    /\ [](pc = "write" => C.current_stride = 1 /\ C.n_factors = 0)
    /\ (Scheduled ~> pc = "write")

\* The schedule of a grid whose stride has three prime factors is over after
\* sweeps at three strides (five calls of surface_iterate)
C15_ThreeStridesSwept ==
    /\ pc = "write" /\ Len(C.factors) = 3 /\ log.iterate_calls = 5
    /\ C.current_stride = 1 /\ C.previous_stride = 1

(***************************************************************************)
(* Properties of the active grid (Spec)                                    *)
(***************************************************************************)
\* The row and column steps of the twelve neighbours N2 .. S2 of a node
\* (rows count downwards from the north)
stencil_step ==
    << <<-2, 0>>, <<-1, -1>>, <<-1, 0>>, <<-1, 1>>, <<0, -2>>, <<0, -1>>,
       <<0, 1>>, <<0, 2>>, <<1, -1>>, <<1, 0>>, <<1, 1>>, <<2, 0>> >>

\* Claim C16: at every stride the solver uses, the stride is a positive
\* divisor of n_columns - 1 and of n_rows - 1, current_nx, current_ny and
\* current_mx follow from it, the four cached corner nodes are the nodes of
\* the interior corners (0, 0), (0, nx-1), (ny-1, 0), (ny-1, nx-1), and the
\* twelve offsets in use are the node steps of the grid of that current_mx.
C16_ActiveGridGeometry ==
    Scheduled =>
        /\ C.current_stride >= 1
        /\ (C.n_columns - 1) % C.current_stride = 0
        /\ (C.n_rows - 1) % C.current_stride = 0
        /\ C.current_nx = (C.n_columns - 1) \div C.current_stride + 1
        /\ C.current_ny = (C.n_rows - 1) \div C.current_stride + 1
        /\ C.current_mx = C.current_nx + 4
        /\ C.node_nw_corner = row_col_to_node(0, 0, C.current_mx)
        /\ C.node_ne_corner = row_col_to_node(0, C.current_nx - 1, C.current_mx)
        /\ C.node_sw_corner = row_col_to_node(C.current_ny - 1, 0, C.current_mx)
        /\ C.node_se_corner = row_col_to_node(C.current_ny - 1, C.current_nx - 1, C.current_mx)
        /\ \A k \in 1..12 :
              C.offset[k] = row_col_to_node(stencil_step[k][1], stencil_step[k][2], C.current_mx)
                            - row_col_to_node(0, 0, C.current_mx)

\* A sweep has been made at stride 2 on a grid that was swept at stride 4
\* before
C16_SweptAtSecondStride ==
    /\ pc = "iterate" /\ iter.iteration_count >= 1
    /\ C.current_stride = 2 /\ C.previous_stride = 4
    /\ C.current_mx # C.previous_mx

\* Claim C17: a grid of at least 4 x 4 nodes is first swept on an active
\* grid of at least 4 x 4 nodes (the loop of lines 2137-2140 ends so), and
\* no call of surface_smart_divide finds n_factors = 0; a grid with fewer
\* than 4 columns or rows is refused with GMT_RUNTIME_ERROR and no record
\* of it is ever read (the run ends where the grid is made, before
\* surface_read_data).
C17_MinimumActiveGrid ==
    /\ [](Scheduled => /\ C.n_columns >= 4 /\ C.n_rows >= 4
                       /\ C.current_nx >= 4 /\ C.current_ny >= 4)
    /\ [](\A k \in 1..Len(log.divides) : log.divides[k] >= 1)
    /\ [][(pc = "setup" /\ (header'.n_columns < 4 \/ header'.n_rows < 4)) =>
             /\ pc' = "done" /\ rc' = "GMT_RUNTIME_ERROR"
             /\ data = <<>> /\ data' = <<>>]_vars
    /\ [](pc \in {"read_data", "breakline", "prepare", "plane", "load_constraints", "strides"} =>
             header.n_columns >= 4 /\ header.n_rows >= 4)

\* The 13 x 13 grid, whose largest stride 12 leaves 2 x 2 nodes, is swept
\* first at stride 4 after one division
C17_DividedOnceAtStart ==
    /\ pc = "iterate" /\ iter.iteration_count >= 1
    /\ log.divides = <<3>> /\ C.current_stride = 4 /\ C.current_nx = 4

\* A region of 3 x 5 nodes has been refused
C17_SmallGridRefused ==
    /\ pc = "done" /\ rc = "GMT_RUNTIME_ERROR" /\ log.writes = 0
    /\ C.n_columns = 3 /\ C.n_rows = 5 /\ data = <<>>
    /\ input.records # <<>>

(***************************************************************************)
(* Properties of the order of the phases (Spec)                            *)
(***************************************************************************)
\* The strides of log.phases in the order of their first entries
RECURSIVE strides_of(_)
strides_of(ph) ==
    IF ph = <<>> THEN <<>>
    ELSE LET r == strides_of(SubSeq(ph, 1, Len(ph) - 1))
         IN  IF r # <<>> /\ r[Len(r)] = ph[Len(ph)][2] THEN r ELSE Append(r, ph[Len(ph)][2])

\* What the claim lets a stride do: the first one, a later one
first_stride_phases(s) ==
    << <<"surface_set_offset", s>>, <<"surface_set_index", s>>,
       <<"surface_find_nearest_constraint", s>>,
       <<"surface_iterate GRID_DATA", s>>, <<"return GRID_DATA", s>> >>
later_stride_phases(s) ==
    << <<"surface_smart_divide", s>>, <<"surface_set_grid_parameters", s>>,
       <<"surface_set_offset", s>>, <<"surface_set_index", s>>, <<"fill_in_forecast", s>>,
       <<"surface_iterate GRID_NODES", s>>, <<"return GRID_NODES", s>>,
       <<"surface_find_nearest_constraint", s>>,
       <<"surface_iterate GRID_DATA", s>>, <<"return GRID_DATA", s>> >>
RECURSIVE phases_of_strides(_, _)
phases_of_strides(st, k) ==
    IF k > Len(st) THEN <<>>
    ELSE (IF k = 1 THEN first_stride_phases(st[k]) ELSE later_stride_phases(st[k]))
         \o phases_of_strides(st, k + 1)

\* The phases without the error report, which the claim does not order
ordered_phases == SelectSeq(log.phases, LAMBDA e : e[1] # "surface_check_errors")
IsPrefix(a, b) == Len(a) <= Len(b) /\ SubSeq(b, 1, Len(a)) = a

\* Claim C18: the first stride runs the nearest-constraint pass and then one
\* GRID_DATA call of surface_iterate; every later stride runs, in this
\* order and once each, the geometry update, surface_set_index,
\* fill_in_forecast, a GRID_NODES call, surface_find_nearest_constraint and
\* a GRID_DATA call; a stride begins only when the GRID_DATA call of the
\* stride before has returned, and the plane is restored only after the
\* GRID_DATA call at stride 1 has returned.
C18_PhaseOrder ==
    LET restored == ordered_phases # <<>>
                    /\ ordered_phases[Len(ordered_phases)][1] = "surface_restore_planar_trend"
        body == IF restored THEN SubSeq(ordered_phases, 1, Len(ordered_phases) - 1) ELSE ordered_phases
        st == strides_of(body)
    IN  /\ IsPrefix(body, phases_of_strides(st, 1))
        /\ \A j, k \in 1..Len(st) : j < k => st[j] > st[k]
        /\ restored => /\ body = phases_of_strides(st, 1)
                       /\ st[Len(st)] = 1
                       /\ ordered_phases[Len(ordered_phases)][2] = 1
        /\ pc \in {"write"} => restored
        /\ (pc = "iterate") =>
               /\ body # <<>>
               /\ body[Len(body)] = <<iterate_phase(iter.mode), C.current_stride>>

\* The plane has been restored after the phases of three strides
C18_ThreeStridesInOrder ==
    /\ pc = "write" /\ Len(strides_of(log.phases)) = 3
    /\ Len(ordered_phases) = 5 + 10 + 10 + 1

(***************************************************************************)
(* Properties of who writes the work arrays (Spec)                         *)
(***************************************************************************)
\* A step between the allocation of the arrays and the end of the main loop
InSolver == Scheduled /\ Scheduled'
\* The step of lines 2206-2208: error report and restore of the plane
Restores == pc = "loop" /\ pc' = "write"
\* The nodes of the grid proper (not the pad) at the final stride
grid_nodes == {row_col_to_node(row, col, C.current_mx) :
                  row \in 0..(C.current_ny - 1), col \in 0..(C.current_nx - 1)}

C20_ProlongationStatuses ==
    [][(pc = "loop" /\ pc' = "iterate") =>
          LET expand == C'.previous_stride \div C'.current_stride
          IN  /\ C'.previous_stride = C.current_stride
              /\ expand >= 2
              /\ C'.current_nx = (C.current_nx - 1) * expand + 1
              /\ C'.current_ny = (C.current_ny - 1) * expand + 1
              /\ \A row \in 0..(C'.current_ny - 1), col \in 0..(C'.current_nx - 1) :
                    LET node == row_col_to_node(row, col, C'.current_mx)
                        image == row % expand = 0 /\ col % expand = 0
                    IN  /\ status'[node] = IF image THEN SURFACE_IS_CONSTRAINED
                                           ELSE SURFACE_IS_UNCONSTRAINED
                        /\ image => u'[node] = u[row_col_to_node(row \div expand, col \div expand,
                                                                 C.current_mx)]]_vars

\* fill_in_forecast has just tripled a grid whose values are not all equal
C20_GridTripled ==
    /\ pc = "iterate" /\ iter.mode = GRID_NODES /\ iter.iteration_count = 0
    /\ C.previous_stride = 3 /\ C.current_stride = 1
    /\ u[row_col_to_node(0, 0, C.current_mx)] # u[row_col_to_node(3, 3, C.current_mx)]
    /\ status[row_col_to_node(0, C.current_nx - 1, C.current_mx)] = SURFACE_IS_CONSTRAINED

\* The interpolant the claim describes at node (row, col) of the new grid g
\* with multiplicity expand: bilinear in the four nodes of the bin at
\* (i / expand, j / expand), linear along the north row and the east column
bilinear_forecast(c, g, expand, row, col) ==
    LET east == c.current_nx - 1
        j == IF row = 0 THEN 0 ELSE (expand - (row % expand)) % expand
        i == IF col = east THEN 0 ELSE col % expand
        index_00 == row_col_to_node(row + j, col - i, c.current_mx)
        index_01 == index_00 - expand * c.current_mx
        index_10 == index_00 + expand
        index_11 == index_01 + expand
        sx == g[index_10] - g[index_00]
        sy == g[index_01] - g[index_00]
        sxy == g[index_11] - g[index_10] - sy
    IN  IF i = 0 /\ j = 0 THEN g[index_00]
        ELSE IF col = east THEN FDiv(g[index_00] * expand + j * sy, expand)
        ELSE IF row = 0 THEN FDiv(g[index_00] * expand + i * sx, expand)
        ELSE FDiv(g[index_00] * expand * expand + sy * j * expand + i * (sx * expand + sxy * j),
                  expand * expand)

\* fill_in_forecast has left, at every node of the new grid, the interpolant
\* of the coarse values at (i / expand, j / expand)
ForecastIsBilinear ==
    (pc = "loop" /\ pc' = "iterate") =>
        \A row \in 0..(C'.current_ny - 1), col \in 0..(C'.current_nx - 1) :
            u'[row_col_to_node(row, col, C'.current_mx)] =
                bilinear_forecast(C', u', C'.previous_stride \div C'.current_stride, row, col)

\* Claim C21: at every stride transition, also one that ends at a stride
\* above 1, fill_in_forecast fills the node i columns east and j rows north
\* of the south-west coarse node of its bin with the bilinear interpolant
\* of the four coarse values at (i / expand, j / expand), and the nodes of
\* the north row and east column with the linear interpolant.
C21_BilinearForecast == [][ForecastIsBilinear]_vars

\* The same for the transitions that end at stride 1
C21_BilinearForecastToStride1 == [][C'.current_stride = 1 => ForecastIsBilinear]_vars

\* fill_in_forecast has run from stride 4 to stride 2
C21_ForecastToStride2 ==
    /\ pc = "iterate" /\ iter.mode = GRID_NODES /\ iter.iteration_count = 0
    /\ C.previous_stride = 4 /\ C.current_stride = 2

\* Largest multiplicity tried for a grid that is about to be expanded
MaxExpand == 4

\* Source and destination of the i-th node of a previous grid of nx columns
\* copied with multiplicity expand (the new grid has (nx - 1) * expand + 1
\* columns)
copy_source(nx, i) == row_col_to_node(i \div nx, i % nx, nx + 4)
copy_destination(nx, expand, i) ==
    row_col_to_node((i \div nx) * expand, (i % nx) * expand, (nx - 1) * expand + 1 + 4)

\* Claim C22: in the backward copy loop of fill_in_forecast the destination
\* of a coarse node is never below its source and is never the source of a
\* coarse node that is still to be copied (one with a smaller number), so
\* after the loop every destination holds the value its source had before.
C22_CopyInPlaceIsSafe ==
    [][(pc = "loop" /\ C.current_stride > 1) =>
          LET n == C.current_nx * C.current_ny
          IN  /\ \A expand \in 2..MaxExpand : \A i \in 0..(n - 1) :
                    /\ copy_destination(C.current_nx, expand, i) >= copy_source(C.current_nx, i)
                    /\ \A k \in 0..(i - 1) :
                          copy_destination(C.current_nx, expand, i) # copy_source(C.current_nx, k)
              /\ pc' = "iterate" =>
                    LET expand == C'.previous_stride \div C'.current_stride
                        copied == expand_grid(C', u, expand, n - 1)
                    IN  /\ C'.previous_nx = C.current_nx /\ C'.previous_mx = C.current_nx + 4
                        /\ C'.current_mx = (C.current_nx - 1) * expand + 1 + 4
                        /\ \A i \in 0..(n - 1) :
                              /\ copied[copy_destination(C.current_nx, expand, i)]
                                    = u[copy_source(C.current_nx, i)]
                              /\ u'[copy_destination(C.current_nx, expand, i)]
                                    = u[copy_source(C.current_nx, i)]]_vars

\* A grid of 4 x 4 nodes with different values in its first two rows has
\* been copied into one of 10 x 10 nodes
C22_CopiedInPlace ==
    /\ pc = "iterate" /\ iter.mode = GRID_NODES /\ iter.iteration_count = 0
    /\ C.previous_nx = 4 /\ C.current_nx = 10
    /\ u[row_col_to_node(0, 3, C.current_mx)] # u[row_col_to_node(3, 0, C.current_mx)]

(***************************************************************************)
(* Properties of the padded grid (Spec)                                    *)
(***************************************************************************)
\* Claim C23: at every stride, every node of the active grid plus each of
\* the twelve stencil offsets (which are all the indices surface_iterate and
\* surface_set_BCs read or write) lies in 0 .. current_mx * (current_ny + 4)
\* - 1, inside the allocated grid and status arrays; and (row, col) ->
\* (row + 2) * mx + col + 2 maps different nodes of the padded grid to
\* different indices.
C23_HaloCoversStencil ==
    Scheduled =>
        /\ C.current_mxmy = C.current_mx * (C.current_ny + 4)
        /\ C.current_mxmy <= C.mxmy
        /\ DOMAIN u = 0..(C.mxmy - 1) /\ DOMAIN status = 0..(C.mxmy - 1)
        /\ \A row \in 0..(C.current_ny - 1), col \in 0..(C.current_nx - 1), k \in 1..12 :
              LET at == row_col_to_node(row, col, C.current_mx) + C.offset[k]
              IN  /\ at >= 0 /\ at < C.current_mxmy
                  /\ at = row_col_to_node(row + stencil_step[k][1], col + stencil_step[k][2],
                                           C.current_mx)
        /\ \A r1, r2 \in -2..(C.current_ny + 1), c1, c2 \in -2..(C.current_nx + 1) :
              row_col_to_node(r1, c1, C.current_mx) = row_col_to_node(r2, c2, C.current_mx)
                  => r1 = r2 /\ c1 = c2

\* A sweep has been made on a coarse grid that is narrower than the
\* allocated one
C23_SweptOnCoarseGrid ==
    /\ pc = "iterate" /\ iter.iteration_count >= 1
    /\ C.current_stride = 4 /\ C.current_mxmy < C.mxmy

(***************************************************************************)
(* Properties of the data array (Spec)                                     *)
(***************************************************************************)
\* Squared distance of a point from the node of its bin on the final grid
bin_distance(q) ==
    LET x0 == col_to_x(index_to_col(q.index, header.n_columns), header.wesn.xlo, header.wesn.xhi,
                       SUB, header.n_columns)
        y0 == row_to_y(index_to_row(q.index, header.n_columns), header.wesn.ylo, header.wesn.yhi,
                       SUB, header.n_rows)
    IN  (q.x - x0) * (q.x - x0) + (q.y - y0) * (q.y - y0)

\* q does not precede r in the order of the claim: breakline points before
\* ordinary ones, then nearer before farther
NotBefore(q, r) ==
    \/ r.kind = SURFACE_BREAKLINE /\ q.kind # SURFACE_BREAKLINE
    \/ r.kind = q.kind /\ bin_distance(r) <= bin_distance(q)

\* Claim C24: surface_throw_away_unusables leaves at most one point in each
\* bin of the final grid, the one that comes first by (breakline before
\* ordinary, then squared distance to the node); npoints drops by the
\* number of points dropped; no point left has index OUTSIDE; the array is
\* sorted by index; and after the data and the breaklines are read the
\* number of points never grows.
C24_OnePointPerBin ==
    [][/\ pc = "prepare" =>
             /\ \A j, k \in 1..Len(data') : j < k => data'[j].index < data'[k].index
             /\ \A k \in 1..Len(data') :
                   /\ data'[k].index # SURFACE_OUTSIDE
                   /\ \E j \in 1..Len(data) :
                         /\ data[j].index = data'[k].index /\ data[j].kind = data'[k].kind
                         /\ data[j].x = data'[k].x /\ data[j].y = data'[k].y
                   /\ \A j \in 1..Len(data) :
                         data[j].index = data'[k].index => NotBefore(data[j], data'[k])
             /\ Len(data') = Cardinality({data[j].index : j \in 1..Len(data)})
             /\ Len(data') <= Len(data)
       /\ pc \notin {"read_data", "breakline"} => Len(data') <= Len(data)]_vars

\* The same for grids with gridline registration
C24_OnePointPerBinOfGridlineGrid ==
    [][(pc = "prepare" /\ input.common.registration = "gridline") =>
          \A k \in 1..Len(data'), j \in 1..Len(data) :
              data[j].index = data'[k].index => NotBefore(data[j], data'[k])]_vars

\* Of two records in one bin of a gridline-registered grid the farther one
\* has been dropped
C24_FartherPointDropped ==
    /\ pc = "load_constraints" /\ input \in Crowded
    /\ input.common.registration = "gridline"
    /\ Len(data) = 4
    /\ \E k \in 1..4 : data[k].x = 4 /\ data[k].y = 4

(***************************************************************************)
(* Properties of surface_find_nearest_constraint (Spec)                    *)
(***************************************************************************)
\* The GRID_DATA sweeps of a stride: the states from the return of
\* surface_find_nearest_constraint to the return of surface_iterate
AfterNearest == pc = "iterate" /\ iter.mode = GRID_DATA

\* The points that are the first of their bin in the sorted array
first_of_bin == {k \in 1..Len(data) : k = 1 \/ data[k].index # data[k - 1].index}
\* Node of the bin of point k on the active grid and the offsets of the
\* point from it, in coordinate units (dy positive up)
node_of_point(k) ==
    row_col_to_node(index_to_row(data[k].index, C.current_nx),
                    index_to_col(data[k].index, C.current_nx), C.current_mx)
dx_of_point(k) ==
    data[k].x - col_to_x(index_to_col(data[k].index, C.current_nx), header.wesn.xlo, header.wesn.xhi,
                         C.current_stride * SUB, C.current_nx)
dy_of_point(k) ==
    data[k].y - row_to_y(index_to_row(data[k].index, C.current_nx), header.wesn.ylo, header.wesn.yhi,
                         C.current_stride * SUB, C.current_ny)
\* Within 5% of the current cell in both directions
on_node(k) ==
    /\ 20 * Abs(dx_of_point(k)) < C.current_stride * SUB
    /\ 20 * Abs(dy_of_point(k)) < C.current_stride * SUB
quadrant_of_point(k) ==
    IF dx_of_point(k) >= 0 THEN (IF dy_of_point(k) >= 0 THEN 1 ELSE 4)
    ELSE (IF dy_of_point(k) >= 0 THEN 2 ELSE 3)
\* The reflected offsets of the claim
xx_of_point(k) == IF quadrant_of_point(k) \in {1, 3} THEN Abs(dx_of_point(k)) ELSE Abs(dy_of_point(k))
yy_of_point(k) == IF quadrant_of_point(k) \in {1, 3} THEN Abs(dy_of_point(k)) ELSE Abs(dx_of_point(k))
\* Position in the Briggs array of the entry of point k
briggs_position(k) == Cardinality({j \in first_of_bin : j <= k /\ ~on_node(j)})
active_nodes == {row_col_to_node(row, col, C.current_mx) :
                    row \in 0..(C.current_ny - 1), col \in 0..(C.current_nx - 1)}
quadrant_nodes == {node \in active_nodes : status[node] \in 1..4}

\* Claim C25: after surface_find_nearest_constraint, at any stride, the node
\* of every bin with data is set from the first-sorted point of the bin
\* alone: constrained, with no Briggs entry, when the point is within 5% of
\* the cell of the node in x and in y, and otherwise the quadrant code of
\* the point with one Briggs entry made from the reflected offsets xx, yy
\* >= 0, xx + yy > 0; the entries written are as many as the nodes with a
\* quadrant code and at most npoints, the length of the Briggs array.
C25_ExactOrOffNode ==
    AfterNearest =>
        /\ \A k \in first_of_bin :
              IF on_node(k) THEN status[node_of_point(k)] = SURFACE_IS_CONSTRAINED
              ELSE /\ status[node_of_point(k)] = quadrant_of_point(k)
                   /\ xx_of_point(k) >= 0 /\ yy_of_point(k) >= 0
                   /\ xx_of_point(k) + yy_of_point(k) > 0
                   /\ Briggs[briggs_position(k)] =
                         surface_solve_Briggs_coefficients(xx_of_point(k), yy_of_point(k), data[k].z,
                                                           C.current_stride * SUB)
        /\ Cardinality(quadrant_nodes) = Cardinality({k \in first_of_bin : ~on_node(k)})
        /\ quadrant_nodes = {node_of_point(k) : k \in {j \in first_of_bin : ~on_node(j)}}
        /\ Cardinality(quadrant_nodes) <= Len(data)
        /\ Len(data) <= Len(Briggs)

\* At a coarse stride a bin holds two points, the first of them away from
\* the node, and another bin has its point on the node
C25_CoarseBinWithTwoPoints ==
    /\ AfterNearest /\ iter.iteration_count >= 1 /\ C.current_stride > 1
    /\ first_of_bin # 1..Len(data)
    /\ \E k \in first_of_bin : on_node(k)
    /\ \E k \in first_of_bin : ~on_node(k) /\ quadrant_of_point(k) # 1

\* Nodes of the active grid whose bin holds a data point
nodes_with_data == {node_of_point(k) : k \in first_of_bin}
\* Nodes of the active grid that the reset loop of lines 587-589 visits
reset_nodes == {node \in active_nodes : in_grd_loop(header, node)}

\* surface_fill_in_forecast has run: the stride is not the first
forecast_made == \E i \in 1..Len(log.phases) : log.phases[i][1] = "fill_in_forecast"

\* Claim C26: after surface_find_nearest_constraint, at any stride, every
\* node of the active grid whose bin holds no data point is unconstrained,
\* and the constrained nodes are those with a point within 5% of the cell.
C26_StatusRebuilt ==
    AfterNearest =>
        /\ \A node \in active_nodes \ nodes_with_data : status[node] = SURFACE_IS_UNCONSTRAINED
        /\ {node \in active_nodes : status[node] = SURFACE_IS_CONSTRAINED}
             = {node_of_point(k) : k \in {j \in first_of_bin : on_node(j)}}

\* What the code does: the statement holds for the nodes the reset loop
\* visits, and at the first stride and at stride 1; a node of the active
\* grid that the loop does not visit keeps the status fill_in_forecast gave it
C26_StatusRebuiltWhereReset ==
    AfterNearest =>
        /\ \A node \in reset_nodes \ nodes_with_data : status[node] = SURFACE_IS_UNCONSTRAINED
        /\ (C.current_stride = 1 \/ ~forecast_made) => C26_StatusRebuilt

\* An intermediate stride whose sweeps hold a node without data fixed
C26_StaleConstrainedNode ==
    /\ AfterNearest /\ iter.iteration_count >= 1
    /\ C.current_stride > 1 /\ forecast_made
    /\ \E node \in active_nodes \ (nodes_with_data \cup reset_nodes) :
          status[node] = SURFACE_IS_CONSTRAINED

(***************************************************************************)
(* The curvature of the -V report (Spec)                                   *)
(***************************************************************************)
\* The discrete Laplacian at a node: its four neighbours less four times
\* the node itself
laplacian(g, node) ==
    g[node + C.offset[E1]] + g[node + C.offset[W1]] + g[node + C.offset[N1]]
        + g[node + C.offset[S1]] - 4 * g[node]
RECURSIVE sum_of_squared_laplacians(_, _)
sum_of_squared_laplacians(g, node) ==
    IF node < 0 THEN 0
    ELSE sum_of_squared_laplacians(g, node - 1)
         + (IF in_grd_loop(header, node) THEN laplacian(g, node) * laplacian(g, node) ELSE 0)
\* g has the same value along every column: linear in x with slope a
LinearInX(g, a) ==
    \A node \in 0..(C.mxmy - 1) :
        g[node] = g[C.node_nw_corner] + a * (grd_col(header, node))

\* Claim C27: the curvature that surface_check_errors reports is the sum
\* over the interior nodes of the squared discrete Laplacian (u[E1] + u[W1]
\* + u[N1] + u[S1] - 4 u[node]) of the grid with its boundary values
\* updated, and so is 0 for a grid that is linear in x.
C27_CurvatureIsLaplacian ==
    [][(pc = "loop" /\ pc' = "write" /\ input.common.verbose) =>
          /\ log'.curvature = <<sum_of_squared_laplacians(surface_set_BCs(C, u), C.mxmy - 1)>>
          /\ \A a \in -2..2 : LinearInX(surface_set_BCs(C, u), a) => log'.curvature = <<0>>]_vars

\* A report with a curvature that is not the sum of the squared Laplacians
C27_CurvatureReported ==
    /\ pc = "write" /\ Len(log.curvature) = 1
    /\ log.curvature[1] > 0

(***************************************************************************)
(* The Briggs array in the sweeps (Spec)                                   *)
(***************************************************************************)
\* The place of a node among the nodes with a quadrant status, in the order
\* in which the loops of lines 1108-1111 visit them
visit_rank(node) == Cardinality({n \in quadrant_nodes : n <= node})
\* The entry the sweep reads at a node with a quadrant status: briggs_index
\* has been advanced once for each such node before it
entry_read_at(node) == Briggs[visit_rank(node)]
entries_written == Cardinality({k \in first_of_bin : ~on_node(k)})

\* Claim C28: in every sweep the k-th node with a quadrant status, in
\* row-major order, reads the Briggs entry computed for the datum of that
\* node at the current stride; the index read is below the number of
\* entries written; and in a GRID_NODES sweep no node of the active grid
\* has a quadrant status.
C28_BriggsAligned ==
    pc = "iterate" =>
        IF iter.mode = GRID_NODES THEN quadrant_nodes = {}
        ELSE /\ \A node \in quadrant_nodes :
                   /\ visit_rank(node) - 1 < entries_written
                   /\ entries_written <= Len(Briggs)
                   /\ \E k \in first_of_bin :
                         /\ node_of_point(k) = node /\ ~on_node(k)
                         /\ entry_read_at(node) =
                               surface_solve_Briggs_coefficients(xx_of_point(k), yy_of_point(k),
                                                                 data[k].z, C.inc[1])
             /\ Cardinality(quadrant_nodes) = entries_written

\* A GRID_DATA sweep at a coarse stride has read three or more entries, and
\* a GRID_NODES sweep has been made
C28_ThreeEntriesRead ==
    /\ pc = "iterate" /\ iter.mode = GRID_DATA /\ iter.iteration_count >= 1
    /\ Cardinality(quadrant_nodes) >= 3
    /\ forecast_made /\ C.current_stride > 1

(***************************************************************************)
(* surface_set_index at the strides (Spec)                                 *)
(***************************************************************************)
\* Column and row of a point on the active grid of c
col_of(c, q) == x_to_col(q.x, header.wesn.xlo, c.inc[1])
row_of(c, q) == y_to_row(q.y, header.wesn.ylo, c.inc[2], c.current_ny)
InActiveGrid(c, q) ==
    /\ col_of(c, q) \in 0..(c.current_nx - 1)
    /\ row_of(c, q) \in 0..(c.current_ny - 1)
\* A step that calls surface_set_index: the first stride or the next one
SetsIndex == (pc = "strides" \/ (pc = "loop" /\ C.current_stride > 1)) /\ pc' = "iterate"

WritesWithin(array) ==
    \A i \in 1..Len(bl.writes) :
        bl.writes[i].array = array => bl.writes[i].index < bl.writes[i].n_alloc

\* Claim C30: in surface_interpolate_add_breakline every write of xb[nb],
\* yb[nb], zb[nb] is at an index nb < n_alloc_b and every write of x[k],
\* y[k], z[k] at an index k < n_alloc.
C30_BufferWritesInBounds == WritesWithin("xb") /\ WritesWithin("x")

\* What the code keeps: the writes of x, y, z are within n_alloc, and
\* n_alloc > new_n after every piece of a segment
C30_WorkArrayWritesInBounds ==
    /\ WritesWithin("x")
    /\ bl.phase \in {"interpolate", "reduce", "append"} => bl.n_alloc > bl.new_n

\* The work arrays have been enlarged for a line of more points than they
\* held, and the line has crossed into a fifth bin
C30_ArraysEnlarged ==
    /\ bl.phase = "append"
    /\ bl.n_alloc > GMT_INITIAL_MEM_ROW_ALLOC
    /\ bl.nb > GMT_INITIAL_MEM_ROW_ALLOC
====
